---------------------------- MODULE Spec2Model ----------------------------
(***************************************************************************)
(* Model of the secure-iac hardening pipeline (backend/app/services):      *)
(*   TerraformService  - process_terraform, _add_tags_to_resources         *)
(*   ScannerService    - scan_terraform, calculate_security_score,         *)
(*                       auto_remediate                                    *)
(*   FormatterService  - format_terraform, generate_module_structure       *)
(*                                                                         *)
(* Text is a sequence of tokens.  A token is a piece of text that none of  *)
(* the program's regular expressions or substring tests can cut: one       *)
(* whitespace character, one brace, one double quote, one dot, or a word   *)
(* (a run of other characters).  The text is the concatenation of its      *)
(* tokens, so equal token sequences are equal texts.                       *)
(* Scores are integers counting tenths (100.0 is 1000).                    *)
(***************************************************************************)
EXTENDS Integers, Sequences, FiniteSets, TLC

(***************************************************************************)
(* Bounds of the model.                                                    *)
(***************************************************************************)
MaxFindings == 11
MaxOther == 2
MaxItems == 2
MaxSteps == 4
MaxIssues == 2
MaxRuns == 2
MaxChecks == 2
MaxTmpFiles == 2

VARIABLES
    service_type,      \* the family of the request: "s3", "ec2" or "vpc"
    terraform_code,    \* the document text the Terraform service holds
    tf_pc,             \* position inside process_terraform
    tf_ops,            \* the steps applied so far, oldest first
    tf_texts,          \* tf_texts[1] is the given text, tf_texts[k + 1]
                       \* the text after step k
    remediated_code,   \* the document text the remediation engine holds
    issues,            \* the finding list handed to auto_remediate
    rem_texts,         \* rem_texts[1] is the given text, rem_texts[k + 1]
                       \* the text after run k of auto_remediate
    scan_results,      \* the finding list handed to calculate_security_score
    security_score,    \* its score, in tenths
    prev_score,        \* the score of the list without its last finding
    extracted,         \* the blocks the formatter extracted from the text
    module_files,      \* the files generate_module_structure returned
    fmt_exit,          \* how the formatter's call ended: "none" before it
    tmp_dir,           \* the temporary files that exist, by name
    last_call,         \* the last call of a service that runs an external
                       \* tool: what it met, what it did and how it ended
    tmp_content,       \* the text in each temporary file of a pipeline run
    pipeline           \* the local variables of each request that
                       \* generate_template is serving, and its position

tfVars == <<service_type, terraform_code, tf_pc, tf_ops, tf_texts>>
remVars == <<remediated_code, issues, rem_texts>>
scoreVars == <<scan_results, security_score, prev_score>>

fmtVars == <<extracted, module_files, fmt_exit>>

\* the state of the services that the Terraform service, the remediation
\* engine and the scoring engine never touch
scanVars == <<tmp_dir, last_call>>

pipeVars == <<tmp_content, pipeline>>

extVars == <<fmtVars, scanVars, pipeVars>>

vars == <<tfVars, remVars, scoreVars, extVars>>

(***************************************************************************)
(* Facts about the words of the model's texts.                             *)
(***************************************************************************)
\* the keywords of the services' substring tests on document text that
\* each word of the model's texts contains
KeywordsIn(word) ==
    CASE word = "[aws_s3_bucket_ownership_controls" -> {"aws_s3_bucket"}
      [] word = "aws_autoscaling_group" -> {"aws_autoscaling_group"}
      [] word = "aws_flow_log" -> {"aws_flow_log"}
      [] word = "aws_iam_role" -> {"aws_iam_role"}
      [] word = "aws_iam_role_policy" -> {"aws_iam_role"}
      [] word = "aws_s3_bucket" -> {"aws_s3_bucket"}
      [] word = "aws_s3_bucket_acl" -> {"aws_s3_bucket"}
      [] word = "aws_s3_bucket_logging" ->
            {"aws_s3_bucket_logging", "aws_s3_bucket", "logging"}
      [] word = "aws_s3_bucket_ownership_controls" -> {"aws_s3_bucket"}
      [] word = "aws_s3_bucket_public_access_block" ->
            {"aws_s3_bucket_public_access_block", "aws_s3_bucket"}
      [] word = "aws_s3_bucket_server_side_encryption_configuration" ->
            {"aws_s3_bucket_server_side_encryption_configuration",
             "aws_s3_bucket"}
      [] word = "aws_s3_bucket_versioning" ->
            {"aws_s3_bucket_versioning", "aws_s3_bucket"}
      [] word = "enable_dns_support" -> {"enable_dns_support"}
      [] word = "encrypted" -> {"encrypted"}
      [] word = "logging" -> {"logging"}
      [] word = "logging]" -> {"logging"}
      [] word = "metadata_options" -> {"metadata_options"}
      [] word = "monitoring" -> {"monitoring"}
      [] word = "monitoring," -> {"monitoring"}
      [] word = "output" -> {"output"}
      [] word = "root_block_device" -> {"root_block_device"}
      [] word = "tags" -> {"tags"}
      [] word = "variable" -> {"variable"}
      [] OTHER -> {}

\* the keywords of the substring tests on issue.lower() that each word of
\* the model's check names contains
IssueKeywordsIn(word) ==
    CASE word = "access" -> {"access"}
      [] word = "dns" -> {"dns"}
      [] word = "ebs" -> {"ebs"}
      [] word = "encryption" -> {"encryption"}
      [] word = "flow" -> {"flow"}
      [] word = "imdsv2" -> {"imdsv2"}
      [] word = "logging" -> {"logging", "log"}
      [] word = "logs" -> {"log"}
      [] word = "monitoring" -> {"monitoring"}
      [] word = "public" -> {"public"}
      [] word = "versioning" -> {"versioning"}
      [] OTHER -> {}

\* str.lower() on the words of a check name
LowerWord(word) ==
    CASE word = "Block" -> "block"
      [] word = "DNS" -> "dns"
      [] word = "EBS" -> "ebs"
      [] word = "Enable" -> "enable"
      [] word = "Encryption" -> "encryption"
      [] word = "Ensure" -> "ensure"
      [] word = "IMDSv2" -> "imdsv2"
      [] word = "Require" -> "require"
      [] word = "S3" -> "s3"
      [] word = "VPC" -> "vpc"
      [] OTHER -> word

\* the words that start with "aws_"
AwsWords ==
    {"aws_autoscaling_group",
     "aws_cloudwatch_log_group",
     "aws_flow_log",
     "aws_iam_role",
     "aws_iam_role_policy",
     "aws_instance",
     "aws_s3_bucket",
     "aws_s3_bucket_acl",
     "aws_s3_bucket_logging",
     "aws_s3_bucket_ownership_controls",
     "aws_s3_bucket_public_access_block",
     "aws_s3_bucket_server_side_encryption_configuration",
     "aws_s3_bucket_versioning",
     "aws_security_group",
     "aws_subnet",
     "aws_vpc"}

\* the words of the model's resource references that [a-zA-Z0-9_]+ matches
IdentWords ==
    {"aws_s3_bucket", "aws_instance", "aws_vpc", "aws_iam_role",
     "main", "web", "b"}

(***************************************************************************)
(* Text: token sequences, substring tests and the regular-expression       *)
(* pieces the services share.                                              *)
(***************************************************************************)
\* the characters \s matches
Spaces == {" ", "\n"}
Quote == "\""

\* the first index >= from whose token is in S, Len(text) + 1 when none
First(text, from, S) ==
    CHOOSE i \in from..(Len(text) + 1) :
        /\ (i = Len(text) + 1 \/ text[i] \in S)
        /\ \A k \in from..(i - 1) : text[k] \notin S

\* the first index >= from whose token is not in S, Len(text) + 1 when none
FirstNot(text, from, S) ==
    CHOOSE i \in from..(Len(text) + 1) :
        /\ (i = Len(text) + 1 \/ text[i] \notin S)
        /\ \A k \in from..(i - 1) : text[k] \in S

\* the last index in from..to whose token is in S, from - 1 when none
Last(text, from, to, S) ==
    CHOOSE i \in (from - 1)..to :
        /\ (i = from - 1 \/ text[i] \in S)
        /\ \A k \in (i + 1)..to : text[k] \notin S

\* keyword in text, for a keyword that is part of one word
In(keyword, text) ==
    \E i \in DOMAIN text : keyword \in KeywordsIn(text[i])

\* the first index >= from whose word contains keyword, Len(text) + 1 when
\* none
FirstWith(text, from, keyword) ==
    CHOOSE i \in from..(Len(text) + 1) :
        /\ (i = Len(text) + 1 \/ keyword \in KeywordsIn(text[i]))
        /\ \A k \in from..(i - 1) : keyword \notin KeywordsIn(text[k])

\* the tokens of needle stand at index i of text
OccursAt(needle, text, i) ==
    /\ i + Len(needle) - 1 <= Len(text)
    /\ \A k \in DOMAIN needle : text[i + k - 1] = needle[k]

\* needle in text, for a needle of several tokens
InSeq(needle, text) ==
    \E i \in DOMAIN text : OccursAt(needle, text, i)

\* the first index >= from where needle stands, Len(text) + 1 when none
Find(needle, text, from) ==
    CHOOSE i \in from..(Len(text) + 1) :
        /\ (i = Len(text) + 1 \/ OccursAt(needle, text, i))
        /\ \A k \in from..(i - 1) : ~OccursAt(needle, text, k)

\* text.replace(old, new) for a non-empty old: every occurrence, left to
\* right, without overlap
RECURSIVE Replace(_, _, _)
Replace(text, old, new) ==
    LET i == Find(old, text, 1)
    IN  IF i > Len(text) THEN text
        ELSE SubSeq(text, 1, i - 1) \o new
             \o Replace(SubSeq(text, i + Len(old), Len(text)), old, new)

\* \s+ at index p: the index after the whitespace, 0 when there is none
SpacesThen(text, p) ==
    IF p > Len(text) THEN 0
    ELSE LET q == FirstNot(text, p, Spaces)
         IN  IF q > p THEN q ELSE 0

\* "[^"]+" at index p: the index of the closing quote, 0 when no match
Quoted(text, p) ==
    IF p = 0 \/ p >= Len(text) \/ text[p] # Quote THEN 0
    ELSE LET q == First(text, p + 1, {Quote})
         IN  IF q > p + 1 /\ q <= Len(text) THEN q ELSE 0

NoMatch == [open |-> 0]

\* keyword\s+{ at index p (a block without labels)
Header0(text, p, keyword) ==
    LET f == IF text[p] = keyword THEN SpacesThen(text, p + 1) ELSE 0
    IN  IF f # 0 /\ f <= Len(text) /\ text[f] = "{"
        THEN [open |-> f]
        ELSE NoMatch

\* keyword\s+"([^"]+)"\s+{ at index p (a block with one label)
Header1(text, p, keyword) ==
    LET a == IF text[p] = keyword THEN SpacesThen(text, p + 1) ELSE 0
        b == Quoted(text, a)
        f == IF b # 0 THEN SpacesThen(text, b + 1) ELSE 0
    IN  IF f # 0 /\ f <= Len(text) /\ text[f] = "{"
        THEN [open |-> f, name |-> SubSeq(text, a + 1, b - 1)]
        ELSE NoMatch

\* resource\s+"([^"]+)"\s+"([^"]+)"\s+{ at index p
ResourceHeader(text, p) ==
    LET a == IF text[p] = "resource" THEN SpacesThen(text, p + 1) ELSE 0
        b == Quoted(text, a)
        c == IF b # 0 THEN SpacesThen(text, b + 1) ELSE 0
        e == Quoted(text, c)
        f == IF e # 0 THEN SpacesThen(text, e + 1) ELSE 0
    IN  IF f # 0 /\ f <= Len(text) /\ text[f] = "{"
        THEN [open |-> f,
              name |-> SubSeq(text, c + 1, e - 1),
              type |-> SubSeq(text, a + 1, b - 1)]
        ELSE NoMatch

\* code.strip(), as AIService._clean_terraform_code returns its text
Strip(text) ==
    LET from == FirstNot(text, 1, Spaces)
        to == CHOOSE i \in 0..Len(text) :
                 /\ (i = 0 \/ text[i] \notin Spaces)
                 /\ \A k \in (i + 1)..Len(text) : text[k] \in Spaces
    IN  SubSeq(text, from, to)

(***************************************************************************)
(* The text templates of the services, token by token, one source line per *)
(* line.                                                                   *)
(***************************************************************************)
\* terraform_service.py 46-56
terraform_block ==
       <<"\n">>
    \o <<"terraform", " ", "{", "\n">>
    \o <<" ", " ", "required_providers", " ", "{", "\n">>
    \o <<" ", " ", " ", " ", "aws", " ", "=", " ", "{", "\n">>
    \o <<" ", " ", " ", " ", " ", " ", "source", " ", " ", "=", " ", "\"",
        "hashicorp/aws", "\"", "\n">>
    \o <<" ", " ", " ", " ", " ", " ", "version", " ", "=", " ", "\"", "~>",
        " ", "4", ".", "16", "\"", "\n">>
    \o <<" ", " ", " ", " ", "}", "\n">>
    \o <<" ", " ", "}", "\n">>
    \o <<" ", " ", "required_version", " ", "=", " ", "\"", ">=", " ", "1",
        ".", "2", ".", "0", "\"", "\n">>
    \o <<"}", "\n">>

\* terraform_service.py 61-65
provider_block ==
       <<"\n">>
    \o <<"provider", " ", "\"", "aws", "\"", " ", "{", "\n">>
    \o <<" ", " ", "region", " ", "=", " ", "var", ".", "region", "\n">>
    \o <<"}", "\n">>

\* terraform_service.py 70-80
variables_block_s3 ==
       <<"\n">>
    \o <<"variable", " ", "\"", "region", "\"", " ", "{", "\n">>
    \o <<" ", " ", "description", " ", "=", " ", "\"", "The", " ", "AWS",
        " ", "region", " ", "to", " ", "deploy", " ", "resources", "\"",
        "\n">>
    \o <<" ", " ", "type", " ", " ", " ", " ", " ", " ", " ", " ", "=", " ",
        "string", "\n">>
    \o <<"}", "\n">>
    \o <<"\n">>
    \o <<"variable", " ", "\"", "bucket_name", "\"", " ", "{", "\n">>
    \o <<" ", " ", "description", " ", "=", " ", "\"", "The", " ", "name",
        " ", "of", " ", "the", " ", "S3", " ", "bucket", "\"", "\n">>
    \o <<" ", " ", "type", " ", " ", " ", " ", " ", " ", " ", " ", "=", " ",
        "string", "\n">>
    \o <<"}", "\n">>

\* terraform_service.py 83-93
variables_block_ec2 ==
       <<"\n">>
    \o <<"variable", " ", "\"", "region", "\"", " ", "{", "\n">>
    \o <<" ", " ", "description", " ", "=", " ", "\"", "The", " ", "AWS",
        " ", "region", " ", "to", " ", "deploy", " ", "resources", "\"",
        "\n">>
    \o <<" ", " ", "type", " ", " ", " ", " ", " ", " ", " ", " ", "=", " ",
        "string", "\n">>
    \o <<"}", "\n">>
    \o <<"\n">>
    \o <<"variable", " ", "\"", "instance_name", "\"", " ", "{", "\n">>
    \o <<" ", " ", "description", " ", "=", " ", "\"", "The", " ", "name",
        " ", "of", " ", "the", " ", "EC2", " ", "instance", "\"", "\n">>
    \o <<" ", " ", "type", " ", " ", " ", " ", " ", " ", " ", " ", "=", " ",
        "string", "\n">>
    \o <<"}", "\n">>

\* terraform_service.py 96-106
variables_block_vpc ==
       <<"\n">>
    \o <<"variable", " ", "\"", "region", "\"", " ", "{", "\n">>
    \o <<" ", " ", "description", " ", "=", " ", "\"", "The", " ", "AWS",
        " ", "region", " ", "to", " ", "deploy", " ", "resources", "\"",
        "\n">>
    \o <<" ", " ", "type", " ", " ", " ", " ", " ", " ", " ", " ", "=", " ",
        "string", "\n">>
    \o <<"}", "\n">>
    \o <<"\n">>
    \o <<"variable", " ", "\"", "vpc_name", "\"", " ", "{", "\n">>
    \o <<" ", " ", "description", " ", "=", " ", "\"", "The", " ", "name",
        " ", "of", " ", "the", " ", "VPC", "\"", "\n">>
    \o <<" ", " ", "type", " ", " ", " ", " ", " ", " ", " ", " ", "=", " ",
        "string", "\n">>
    \o <<"}", "\n">>

\* terraform_service.py 112-122
outputs_block_s3 ==
       <<"\n">>
    \o <<"output", " ", "\"", "bucket_id", "\"", " ", "{", "\n">>
    \o <<" ", " ", "description", " ", "=", " ", "\"", "The", " ", "ID", " ",
        "of", " ", "the", " ", "S3", " ", "bucket", "\"", "\n">>
    \o <<" ", " ", "value", " ", " ", " ", " ", " ", " ", " ", "=", " ",
        "aws_s3_bucket", ".", "main", ".", "id", "\n">>
    \o <<"}", "\n">>
    \o <<"\n">>
    \o <<"output", " ", "\"", "bucket_arn", "\"", " ", "{", "\n">>
    \o <<" ", " ", "description", " ", "=", " ", "\"", "The", " ", "ARN",
        " ", "of", " ", "the", " ", "S3", " ", "bucket", "\"", "\n">>
    \o <<" ", " ", "value", " ", " ", " ", " ", " ", " ", " ", "=", " ",
        "aws_s3_bucket", ".", "main", ".", "arn", "\n">>
    \o <<"}", "\n">>

\* terraform_service.py 125-140
outputs_block_ec2 ==
       <<"\n">>
    \o <<"output", " ", "\"", "instance_id", "\"", " ", "{", "\n">>
    \o <<" ", " ", "description", " ", "=", " ", "\"", "The", " ", "ID", " ",
        "of", " ", "the", " ", "EC2", " ", "instance", "\"", "\n">>
    \o <<" ", " ", "value", " ", " ", " ", " ", " ", " ", " ", "=", " ",
        "aws_instance", ".", "main", ".", "id", "\n">>
    \o <<"}", "\n">>
    \o <<"\n">>
    \o <<"output", " ", "\"", "instance_private_ip", "\"", " ", "{", "\n">>
    \o <<" ", " ", "description", " ", "=", " ", "\"", "The", " ", "private",
        " ", "IP", " ", "address", " ", "of", " ", "the", " ", "EC2", " ",
        "instance", "\"", "\n">>
    \o <<" ", " ", "value", " ", " ", " ", " ", " ", " ", " ", "=", " ",
        "aws_instance", ".", "main", ".", "private_ip", "\n">>
    \o <<"}", "\n">>
    \o <<"\n">>
    \o <<"output", " ", "\"", "instance_public_ip", "\"", " ", "{", "\n">>
    \o <<" ", " ", "description", " ", "=", " ", "\"", "The", " ", "public",
        " ", "IP", " ", "address", " ", "of", " ", "the", " ", "EC2", " ",
        "instance", "\"", "\n">>
    \o <<" ", " ", "value", " ", " ", " ", " ", " ", " ", " ", "=", " ",
        "aws_instance", ".", "main", ".", "public_ip", "\n">>
    \o <<"}", "\n">>

\* terraform_service.py 143-163
outputs_block_vpc ==
       <<"\n">>
    \o <<"output", " ", "\"", "vpc_id", "\"", " ", "{", "\n">>
    \o <<" ", " ", "description", " ", "=", " ", "\"", "The", " ", "ID", " ",
        "of", " ", "the", " ", "VPC", "\"", "\n">>
    \o <<" ", " ", "value", " ", " ", " ", " ", " ", " ", " ", "=", " ",
        "aws_vpc", ".", "main", ".", "id", "\n">>
    \o <<"}", "\n">>
    \o <<"\n">>
    \o <<"output", " ", "\"", "vpc_cidr_block", "\"", " ", "{", "\n">>
    \o <<" ", " ", "description", " ", "=", " ", "\"", "The", " ", "CIDR",
        " ", "block", " ", "of", " ", "the", " ", "VPC", "\"", "\n">>
    \o <<" ", " ", "value", " ", " ", " ", " ", " ", " ", " ", "=", " ",
        "aws_vpc", ".", "main", ".", "cidr_block", "\n">>
    \o <<"}", "\n">>
    \o <<"\n">>
    \o <<"output", " ", "\"", "public_subnet_ids", "\"", " ", "{", "\n">>
    \o <<" ", " ", "description", " ", "=", " ", "\"", "List", " ", "of",
        " ", "IDs", " ", "of", " ", "public", " ", "subnets", "\"", "\n">>
    \o <<" ", " ", "value", " ", " ", " ", " ", " ", " ", " ", "=", " ",
        "aws_subnet", ".", "public[*]", ".", "id", "\n">>
    \o <<"}", "\n">>
    \o <<"\n">>
    \o <<"output", " ", "\"", "private_subnet_ids", "\"", " ", "{", "\n">>
    \o <<" ", " ", "description", " ", "=", " ", "\"", "List", " ", "of",
        " ", "IDs", " ", "of", " ", "private", " ", "subnets", "\"", "\n">>
    \o <<" ", " ", "value", " ", " ", " ", " ", " ", " ", " ", "=", " ",
        "aws_subnet", ".", "private[*]", ".", "id", "\n">>
    \o <<"}", "\n">>

\* terraform_service.py 177-185, with % var_name applied
default_tags(var_name) ==
       <<"\n">>
    \o <<" ", " ", "tags", " ", "=", " ", "{", "\n">>
    \o <<" ", " ", " ", " ", "Name", " ", " ", " ", " ", " ", " ", " ", " ",
        "=", " ", "var", ".", var_name, "\n">>
    \o <<" ", " ", " ", " ", "Environment", " ", "=", " ", "\"",
        "production", "\"", "\n">>
    \o <<" ", " ", " ", " ", "ManagedBy", " ", " ", " ", "=", " ", "\"",
        "terraform", "\"", "\n">>
    \o <<" ", " ", " ", " ", "Security", " ", " ", " ", " ", "=", " ", "\"",
        "high", "\"", "\n">>
    \o <<" ", " ", " ", " ", "CreatedBy", " ", " ", " ", "=", " ", "\"",
        "secure-iac", "\"", "\n">>
    \o <<" ", " ", "}", "\n">>

\* scanner_service.py 223-233
encryption_block(resource_name) ==
       <<"\n">>
    \o <<"resource", " ", "\"",
        "aws_s3_bucket_server_side_encryption_configuration", "\"", " ",
        "\"", resource_name, "\"", " ", "{", "\n">>
    \o <<" ", " ", "bucket", " ", "=", " ", "aws_s3_bucket", ".",
        resource_name, ".", "id", "\n">>
    \o <<"\n">>
    \o <<" ", " ", "rule", " ", "{", "\n">>
    \o <<" ", " ", " ", " ", "apply_server_side_encryption_by_default", " ",
        "{", "\n">>
    \o <<" ", " ", " ", " ", " ", " ", "sse_algorithm", " ", "=", " ", "\"",
        "AES256", "\"", "\n">>
    \o <<" ", " ", " ", " ", "}", "\n">>
    \o <<" ", " ", "}", "\n">>
    \o <<"}", "\n">>

\* scanner_service.py 240-249
public_access_block(resource_name) ==
       <<"\n">>
    \o <<"resource", " ", "\"", "aws_s3_bucket_public_access_block", "\"",
        " ", "\"", resource_name, "\"", " ", "{", "\n">>
    \o <<" ", " ", "bucket", " ", "=", " ", "aws_s3_bucket", ".",
        resource_name, ".", "id", "\n">>
    \o <<"\n">>
    \o <<" ", " ", "block_public_acls", " ", " ", " ", " ", " ", " ", " ",
        "=", " ", "true", "\n">>
    \o <<" ", " ", "block_public_policy", " ", " ", " ", " ", " ", "=", " ",
        "true", "\n">>
    \o <<" ", " ", "ignore_public_acls", " ", " ", " ", " ", " ", " ", "=",
        " ", "true", "\n">>
    \o <<" ", " ", "restrict_public_buckets", " ", "=", " ", "true", "\n">>
    \o <<"}", "\n">>

\* scanner_service.py 256-263
versioning_block(resource_name) ==
       <<"\n">>
    \o <<"resource", " ", "\"", "aws_s3_bucket_versioning", "\"", " ", "\"",
        resource_name, "\"", " ", "{", "\n">>
    \o <<" ", " ", "bucket", " ", "=", " ", "aws_s3_bucket", ".",
        resource_name, ".", "id", "\n">>
    \o <<" ", " ", "versioning_configuration", " ", "{", "\n">>
    \o <<" ", " ", " ", " ", "status", " ", "=", " ", "\"", "Enabled", "\"",
        "\n">>
    \o <<" ", " ", "}", "\n">>
    \o <<"}", "\n">>

\* scanner_service.py 272-297
logging_bucket(resource_name) ==
       <<"\n">>
    \o <<"resource", " ", "\"", "aws_s3_bucket", "\"", " ", "\"", "logging",
        "\"", " ", "{", "\n">>
    \o <<" ", " ", "bucket", " ", "=", " ", "\"", "$", "{", "aws_s3_bucket",
        ".", resource_name, ".", "bucket", "}", "-logs", "\"", "\n">>
    \o <<" ", " ", "\n">>
    \o <<" ", " ", "tags", " ", "=", " ", "{", "\n">>
    \o <<" ", " ", " ", " ", "Name", " ", " ", " ", " ", " ", " ", " ", " ",
        "=", " ", "\"", "$", "{", "aws_s3_bucket", ".", resource_name, ".",
        "bucket", "}", "-logs", "\"", "\n">>
    \o <<" ", " ", " ", " ", "Environment", " ", "=", " ", "\"",
        "production", "\"", "\n">>
    \o <<" ", " ", " ", " ", "ManagedBy", " ", " ", " ", "=", " ", "\"",
        "terraform", "\"", "\n">>
    \o <<" ", " ", " ", " ", "Security", " ", " ", " ", " ", "=", " ", "\"",
        "high", "\"", "\n">>
    \o <<" ", " ", " ", " ", "CreatedBy", " ", " ", " ", "=", " ", "\"",
        "secure-iac", "\"", "\n">>
    \o <<" ", " ", "}", "\n">>
    \o <<"}", "\n">>
    \o <<"\n">>
    \o <<"resource", " ", "\"", "aws_s3_bucket_ownership_controls", "\"",
        " ", "\"", "logging", "\"", " ", "{", "\n">>
    \o <<" ", " ", "bucket", " ", "=", " ", "aws_s3_bucket", ".", "logging",
        ".", "id", "\n">>
    \o <<" ", " ", "rule", " ", "{", "\n">>
    \o <<" ", " ", " ", " ", "object_ownership", " ", "=", " ", "\"",
        "BucketOwnerPreferred", "\"", "\n">>
    \o <<" ", " ", "}", "\n">>
    \o <<"}", "\n">>
    \o <<"\n">>
    \o <<"resource", " ", "\"", "aws_s3_bucket_acl", "\"", " ", "\"",
        "logging", "\"", " ", "{", "\n">>
    \o <<" ", " ", "depends_on", " ", "=", " ",
        "[aws_s3_bucket_ownership_controls", ".", "logging]", "\n">>
    \o <<" ", " ", "bucket", " ", "=", " ", "aws_s3_bucket", ".", "logging",
        ".", "id", "\n">>
    \o <<" ", " ", "acl", " ", " ", " ", " ", "=", " ", "\"",
        "log-delivery-write", "\"", "\n">>
    \o <<"}", "\n">>

\* scanner_service.py 300-307
logging_config(resource_name) ==
       <<"\n">>
    \o <<"resource", " ", "\"", "aws_s3_bucket_logging", "\"", " ", "\"",
        resource_name, "\"", " ", "{", "\n">>
    \o <<" ", " ", "bucket", " ", "=", " ", "aws_s3_bucket", ".",
        resource_name, ".", "id", "\n">>
    \o <<"\n">>
    \o <<" ", " ", "target_bucket", " ", "=", " ", "aws_s3_bucket", ".",
        "logging", ".", "id", "\n">>
    \o <<" ", " ", "target_prefix", " ", "=", " ", "\"", "log/", "\"", "\n">>
    \o <<"}", "\n">>

\* scanner_service.py 328-334
metadata_options ==
       <<"\n">>
    \o <<" ", " ", "metadata_options", " ", "{", "\n">>
    \o <<" ", " ", " ", " ", "http_endpoint", " ", " ", " ", " ", " ", " ",
        " ", " ", " ", " ", " ", " ", " ", " ", " ", "=", " ", "\"",
        "enabled", "\"", "\n">>
    \o <<" ", " ", " ", " ", "http_tokens", " ", " ", " ", " ", " ", " ",
        " ", " ", " ", " ", " ", " ", " ", " ", " ", " ", " ", "=", " ",
        "\"", "required", "\"", "\n">>
    \o <<" ", " ", " ", " ", "http_put_response_hop_limit", " ", "=", " ",
        "1", "\n">>
    \o <<" ", " ", "}", "\n">>

\* scanner_service.py 343-347
root_block_device ==
       <<"\n">>
    \o <<" ", " ", "root_block_device", " ", "{", "\n">>
    \o <<" ", " ", " ", " ", "encrypted", " ", "=", " ", "true", "\n">>
    \o <<" ", " ", "}", "\n">>

\* scanner_service.py 392-431
iam_role ==
       <<"\n">>
    \o <<"resource", " ", "\"", "aws_iam_role", "\"", " ", "\"",
        "flow_log_role", "\"", " ", "{", "\n">>
    \o <<" ", " ", "name", " ", "=", " ", "\"", "flow-log-role", "\"", "\n">>
    \o <<"\n">>
    \o <<" ", " ", "assume_role_policy", " ", "=", " ", "jsonencode(", "{",
        "\n">>
    \o <<" ", " ", " ", " ", "Version", " ", "=", " ", "\"", "2012-10-17",
        "\"", "\n">>
    \o <<" ", " ", " ", " ", "Statement", " ", "=", " ", "[", "\n">>
    \o <<" ", " ", " ", " ", " ", " ", "{", "\n">>
    \o <<" ", " ", " ", " ", " ", " ", " ", " ", "Action", " ", "=", " ",
        "\"", "sts:AssumeRole", "\"", "\n">>
    \o <<" ", " ", " ", " ", " ", " ", " ", " ", "Effect", " ", "=", " ",
        "\"", "Allow", "\"", "\n">>
    \o <<" ", " ", " ", " ", " ", " ", " ", " ", "Principal", " ", "=", " ",
        "{", "\n">>
    \o <<" ", " ", " ", " ", " ", " ", " ", " ", " ", " ", "Service", " ",
        "=", " ", "\"", "vpc-flow-logs", ".", "amazonaws", ".", "com", "\"",
        "\n">>
    \o <<" ", " ", " ", " ", " ", " ", " ", " ", "}", "\n">>
    \o <<" ", " ", " ", " ", " ", " ", "}", "\n">>
    \o <<" ", " ", " ", " ", "]", "\n">>
    \o <<" ", " ", "}", ")", "\n">>
    \o <<"}", "\n">>
    \o <<"\n">>
    \o <<"resource", " ", "\"", "aws_iam_role_policy", "\"", " ", "\"",
        "flow_log_policy", "\"", " ", "{", "\n">>
    \o <<" ", " ", "name", " ", "=", " ", "\"", "flow-log-policy", "\"",
        "\n">>
    \o <<" ", " ", "role", " ", "=", " ", "aws_iam_role", ".",
        "flow_log_role", ".", "id", "\n">>
    \o <<"\n">>
    \o <<" ", " ", "policy", " ", "=", " ", "jsonencode(", "{", "\n">>
    \o <<" ", " ", " ", " ", "Version", " ", "=", " ", "\"", "2012-10-17",
        "\"", "\n">>
    \o <<" ", " ", " ", " ", "Statement", " ", "=", " ", "[", "\n">>
    \o <<" ", " ", " ", " ", " ", " ", "{", "\n">>
    \o <<" ", " ", " ", " ", " ", " ", " ", " ", "Action", " ", "=", " ",
        "[", "\n">>
    \o <<" ", " ", " ", " ", " ", " ", " ", " ", " ", " ", "\"",
        "logs:CreateLogGroup", "\"", ",", "\n">>
    \o <<" ", " ", " ", " ", " ", " ", " ", " ", " ", " ", "\"",
        "logs:CreateLogStream", "\"", ",", "\n">>
    \o <<" ", " ", " ", " ", " ", " ", " ", " ", " ", " ", "\"",
        "logs:PutLogEvents", "\"", ",", "\n">>
    \o <<" ", " ", " ", " ", " ", " ", " ", " ", " ", " ", "\"",
        "logs:DescribeLogGroups", "\"", ",", "\n">>
    \o <<" ", " ", " ", " ", " ", " ", " ", " ", " ", " ", "\"",
        "logs:DescribeLogStreams", "\"", "\n">>
    \o <<" ", " ", " ", " ", " ", " ", " ", " ", "]", "\n">>
    \o <<" ", " ", " ", " ", " ", " ", " ", " ", "Effect", " ", " ", " ",
        "=", " ", "\"", "Allow", "\"", "\n">>
    \o <<" ", " ", " ", " ", " ", " ", " ", " ", "Resource", " ", "=", " ",
        "\"", "*", "\"", "\n">>
    \o <<" ", " ", " ", " ", " ", " ", "}", "\n">>
    \o <<" ", " ", " ", " ", "]", "\n">>
    \o <<" ", " ", "}", ")", "\n">>
    \o <<"}", "\n">>

\* scanner_service.py 435-447
flow_logs(resource_name) ==
       <<"\n">>
    \o <<"resource", " ", "\"", "aws_cloudwatch_log_group", "\"", " ", "\"",
        "flow_log", "\"", " ", "{", "\n">>
    \o <<" ", " ", "name", " ", "=", " ", "\"", "vpc-flow-log-",
        resource_name, "\"", "\n">>
    \o <<" ", " ", "retention_in_days", " ", "=", " ", "14", "\n">>
    \o <<"}", "\n">>
    \o <<"\n">>
    \o <<"resource", " ", "\"", "aws_flow_log", "\"", " ", "\"",
        resource_name, "\"", " ", "{", "\n">>
    \o <<" ", " ", "log_destination", " ", "=", " ",
        "aws_cloudwatch_log_group", ".", "flow_log", ".", "arn", "\n">>
    \o <<" ", " ", "iam_role_arn", " ", " ", " ", "=", " ", "aws_iam_role",
        ".", "flow_log_role", ".", "arn", "\n">>
    \o <<" ", " ", "vpc_id", " ", " ", " ", " ", " ", " ", " ", " ", " ",
        "=", " ", "aws_vpc", ".", resource_name, ".", "id", "\n">>
    \o <<" ", " ", "traffic_type", " ", " ", " ", "=", " ", "\"", "ALL",
        "\"", "\n">>
    \o <<"}", "\n">>

\* scanner_service.py 369
monitoring_patch ==
       <<" ", " ", "monitoring", " ", "=", " ", "true", "\n">>
    \o <<"}">>

\* scanner_service.py 360
encrypted_patch ==
       <<" ", " ", "encrypted", " ", "=", " ", "true", "\n">>
    \o <<"}">>

\* scanner_service.py 455
dns_patch ==
       <<" ", " ", "enable_dns_support", " ", "=", " ", "true", "\n">>
    \o <<" ", " ", "enable_dns_hostnames", " ", "=", " ", "true", "\n">>
    \o <<"}">>

\* the table _load_documentation_templates returns, terraform_service.py 14-40
documentation_templates ==
    [aws_s3_bucket |->
        [public_access_block |->
                <<"#", " ", "Public", " ", "Access", " ", "Block:", "\n">>
             \o <<"#", " ", "-", " ", "Prevents", " ", "public", " ",
                 "access", " ", "to", " ", "the", " ", "bucket", " ", "at",
                 " ", "the", " ", "account", " ", "level", "\n">>
             \o <<"#", " ", "-", " ", "Additional", " ", "layer", " ", "of",
                 " ", "protection", " ", "against", " ", "accidental", " ",
                 "exposure">>,
         standard |->
                <<"#", " ", "S3", " ", "bucket", " ", "configured", " ",
                 "with", " ", "security", " ", "best", " ", "practices",
                 "\n">>
             \o <<"#", " ", "-", " ", "Server-side", " ", "encryption", " ",
                 "enabled", "\n">>
             \o <<"#", " ", "-", " ", "Versioning", " ", "enabled", " ",
                 "for", " ", "data", " ", "protection", "\n">>
             \o <<"#", " ", "-", " ", "Public", " ", "access", " ",
                 "blocked", " ", "by", " ", "default">>,
         encryption |->
                <<"#", " ", "Encryption", " ", "Configuration:", "\n">>
             \o <<"#", " ", "-", " ", "AES256:", " ", "Server-side", " ",
                 "encryption", " ", "with", " ", "Amazon", " ", "S3-managed",
                 " ", "keys", "\n">>
             \o <<"#", " ", "-", " ", "aws:kms:", " ", "Server-side", " ",
                 "encryption", " ", "with", " ", "AWS", " ", "KMS-managed",
                 " ", "keys">>,
         versioning |->
                <<"#", " ", "Versioning", " ", "Configuration:", "\n">>
             \o <<"#", " ", "-", " ", "Protects", " ", "against", " ",
                 "accidental", " ", "deletion", " ", "and", " ", "provides",
                 " ", "audit", " ", "trail", "\n">>
             \o <<"#", " ", "-", " ", "Required", " ", "for", " ",
                 "compliance", " ", "frameworks", " ", "like", " ", "HIPAA",
                 " ", "and", " ", "PCI", " ", "DSS">>,
         logging |->
                <<"#", " ", "Access", " ", "Logging", " ", "Configuration:",
                 "\n">>
             \o <<"#", " ", "-", " ", "Tracks", " ", "all", " ", "requests",
                 " ", "made", " ", "to", " ", "the", " ", "bucket", "\n">>
             \o <<"#", " ", "-", " ", "Important", " ", "for", " ",
                 "security", " ", "auditing", " ", "and", " ", "compliance">>,
         lifecycle |->
                <<"#", " ", "Lifecycle", " ", "Configuration:", "\n">>
             \o <<"#", " ", "-", " ", "Manages", " ", "objects", " ",
                 "throughout", " ", "their", " ", "lifecycle", " ", "to",
                 " ", "optimize", " ", "costs", "\n">>
             \o <<"#", " ", "-", " ", "Automatically", " ", "transitions",
                 " ", "or", " ", "expires", " ", "objects", " ", "based",
                 " ", "on", " ", "age">>,
         cors |->
                <<"#", " ", "CORS", " ", "Configuration:", "\n">>
             \o <<"#", " ", "-", " ", "Controls", " ", "which", " ",
                 "domains", " ", "can", " ", "access", " ", "bucket", " ",
                 "content", "\n">>
             \o <<"#", " ", "-", " ", "Restricts", " ", "access", " ", "to",
                 " ", "specified", " ", "origins", " ", "only">>],
     aws_ec2_instance |->
        [standard |->
                <<"#", " ", "EC2", " ", "instance", " ", "configured", " ",
                 "with", " ", "security", " ", "best", " ", "practices",
                 "\n">>
             \o <<"#", " ", "-", " ", "IMDSv2", " ", "required", " ", "for",
                 " ", "enhanced", " ", "security", "\n">>
             \o <<"#", " ", "-", " ", "EBS", " ", "volumes", " ",
                 "encrypted", " ", "by", " ", "default", "\n">>
             \o <<"#", " ", "-", " ", "Secure", " ", "security", " ",
                 "group", " ", "configuration">>,
         encryption |->
                <<"#", " ", "EBS", " ", "Encryption", " ", "Configuration:",
                 "\n">>
             \o <<"#", " ", "-", " ", "All", " ", "volumes", " ",
                 "encrypted", " ", "at", " ", "rest", " ", "using", " ",
                 "AWS", " ", "KMS", "\n">>
             \o <<"#", " ", "-", " ", "Protects", " ", "data", " ",
                 "confidentiality", " ", "and", " ", "meets", " ",
                 "compliance", " ", "requirements">>,
         security_groups |->
                <<"#", " ", "Security", " ", "Group", " ", "Configuration:",
                 "\n">>
             \o <<"#", " ", "-", " ", "Follows", " ", "principle", " ", "of",
                 " ", "least", " ", "privilege", "\n">>
             \o <<"#", " ", "-", " ", "Only", " ", "necessary", " ", "ports",
                 " ", "are", " ", "opened", "\n">>
             \o <<"#", " ", "-", " ", "Restricts", " ", "access", " ", "to",
                 " ", "specific", " ", "CIDR", " ", "blocks">>,
         instance_metadata |->
                <<"#", " ", "Instance", " ", "Metadata", " ", "Service", " ",
                 "Configuration:", "\n">>
             \o <<"#", " ", "-", " ", "IMDSv2", " ", "required", " ", "to",
                 " ", "prevent", " ", "SSRF", " ", "attacks", "\n">>
             \o <<"#", " ", "-", " ", "Hop", " ", "limit", " ", "set", " ",
                 "to", " ", "1", " ", "to", " ", "prevent", " ", "token",
                 " ", "exfiltration">>,
         monitoring |->
                <<"#", " ", "Monitoring", " ", "Configuration:", "\n">>
             \o <<"#", " ", "-", " ", "Enables", " ", "detailed", " ",
                 "CloudWatch", " ", "monitoring", "\n">>
             \o <<"#", " ", "-", " ", "Provides", " ", "metrics", " ", "at",
                 " ", "1-minute", " ", "intervals", " ", "for", " ",
                 "better", " ", "visibility">>,
         auto_scaling |->
                <<"#", " ", "Auto", " ", "Scaling", " ", "Configuration:",
                 "\n">>
             \o <<"#", " ", "-", " ", "Automatically", " ", "adjusts", " ",
                 "capacity", " ", "based", " ", "on", " ", "demand", "\n">>
             \o <<"#", " ", "-", " ", "Ensures", " ", "high", " ",
                 "availability", " ", "and", " ", "performance">>],
     aws_vpc |->
        [flow_logs |->
                <<"#", " ", "Flow", " ", "Logs", " ", "Configuration:", "\n">>
             \o <<"#", " ", "-", " ", "Captures", " ", "information", " ",
                 "about", " ", "IP", " ", "traffic", " ", "going", " ", "to",
                 " ", "and", " ", "from", " ", "network", " ", "interfaces",
                 "\n">>
             \o <<"#", " ", "-", " ", "Essential", " ", "for", " ",
                 "network", " ", "monitoring,", " ", "troubleshooting,", " ",
                 "and", " ", "security", " ", "analysis">>,
         standard |->
                <<"#", " ", "VPC", " ", "configured", " ", "with", " ",
                 "security", " ", "best", " ", "practices", "\n">>
             \o <<"#", " ", "-", " ", "Network", " ", "segmentation", " ",
                 "with", " ", "public", " ", "and", " ", "private", " ",
                 "subnets", "\n">>
             \o <<"#", " ", "-", " ", "DNS", " ", "support", " ", "enabled",
                 " ", "for", " ", "resource", " ", "discovery", "\n">>
             \o <<"#", " ", "-", " ", "Flow", " ", "logs", " ", "enabled",
                 " ", "for", " ", "network", " ", "monitoring">>,
         network_acl |->
                <<"#", " ", "Network", " ", "ACL", " ", "Configuration:",
                 "\n">>
             \o <<"#", " ", "-", " ", "Stateless", " ", "firewall", " ",
                 "controlling", " ", "traffic", " ", "in", " ", "and", " ",
                 "out", " ", "of", " ", "subnets", "\n">>
             \o <<"#", " ", "-", " ", "Provides", " ", "additional", " ",
                 "layer", " ", "of", " ", "security", " ", "beyond", " ",
                 "security", " ", "groups">>,
         nat_gateway |->
                <<"#", " ", "NAT", " ", "Gateway", " ", "Configuration:",
                 "\n">>
             \o <<"#", " ", "-", " ", "Allows", " ", "instances", " ", "in",
                 " ", "private", " ", "subnets", " ", "to", " ", "access",
                 " ", "the", " ", "internet", "\n">>
             \o <<"#", " ", "-", " ", "While", " ", "preventing", " ",
                 "inbound", " ", "connections", " ", "from", " ", "the", " ",
                 "internet">>,
         subnet_config |->
                <<"#", " ", "Subnet", " ", "Configuration:", "\n">>
             \o <<"#", " ", "-", " ", "Public", " ", "subnets", " ", "for",
                 " ", "internet-facing", " ", "resources", "\n">>
             \o <<"#", " ", "-", " ", "Private", " ", "subnets", " ", "for",
                 " ", "internal", " ", "resources", " ", "with", " ", "no",
                 " ", "direct", " ", "internet", " ", "access">>,
         dns_config |->
                <<"#", " ", "DNS", " ", "Configuration:", "\n">>
             \o <<"#", " ", "-", " ", "Enables", " ", "DNS", " ",
                 "resolution", " ", "for", " ", "resources", " ", "within",
                 " ", "the", " ", "VPC", "\n">>
             \o <<"#", " ", "-", " ", "Allows", " ", "instances", " ", "to",
                 " ", "resolve", " ", "public", " ", "DNS", " ", "hostnames",
                 " ", "to", " ", "private", " ", "IP", " ", "addresses">>]]

\* terraform_service.py 214-226, with service_type.upper() called family
header_doc(family) ==
       <<"#", " ", "Secure", " ", "Terraform", " ", "Configuration", " ",
        "for", " ", "AWS", " ", family, "\n">>
    \o <<"#", " ", "Generated", " ", "by", " ", "Secure", " ", "IaC", "\n">>
    \o <<"#", " ", "This", " ", "configuration", " ", "follows", " ", "AWS",
        " ", "security", " ", "best", " ", "practices", "\n">>
    \o <<"#", " ", "and", " ", "implements", " ", "secure", " ", "defaults",
        " ", "for", " ", family, " ", "resources", ".", "\n">>
    \o <<"#", "\n">>
    \o <<"#", " ", "Security", " ", "features", " ", "implemented:", "\n">>
    \o <<"#", " ", "-", " ", "Resource-level", " ", "encryption", "\n">>
    \o <<"#", " ", "-", " ", "Limited", " ", "network", " ", "access", "\n">>
    \o <<"#", " ", "-", " ", "Logging", " ", "and", " ", "monitoring", "\n">>
    \o <<"#", " ", "-", " ", "Secure", " ", "authentication", " ", "and",
        " ", "authorization", "\n">>
    \o <<"#", " ", "-", " ", "Compliance", " ", "controls", "\n">>
    \o <<"#", "\n">>

(***************************************************************************)
(* The pieces the given documents and check names are made of.             *)
(***************************************************************************)
\* input text: resource "aws_s3_bucket" "main" { /   bucket = "x" / }
BucketBlock ==
       <<"resource", " ", "\"", "aws_s3_bucket", "\"", " ", "\"", "main",
        "\"", " ", "{", "\n">>
    \o <<" ", " ", "bucket", " ", "=", " ", "\"", "x", "\"", "\n">>
    \o <<"}", "\n">>

\* input text: resource "aws_s3_bucket" "main" { /   bucket = "x" /   tags = { /     Name = "x" /   } / }
TaggedBlock ==
       <<"resource", " ", "\"", "aws_s3_bucket", "\"", " ", "\"", "main",
        "\"", " ", "{", "\n">>
    \o <<" ", " ", "bucket", " ", "=", " ", "\"", "x", "\"", "\n">>
    \o <<" ", " ", "tags", " ", "=", " ", "{", "\n">>
    \o <<" ", " ", " ", " ", "Name", " ", "=", " ", "\"", "x", "\"", "\n">>
    \o <<" ", " ", "}", "\n">>
    \o <<"}", "\n">>

\* input text: resource "aws_instance" "web" { /   root_block_device { /     volume_size = 8 /   } /   ami = "x" / }
NestedBlock ==
       <<"resource", " ", "\"", "aws_instance", "\"", " ", "\"", "web", "\"",
        " ", "{", "\n">>
    \o <<" ", " ", "root_block_device", " ", "{", "\n">>
    \o <<" ", " ", " ", " ", "volume_size", " ", "=", " ", "8", "\n">>
    \o <<" ", " ", "}", "\n">>
    \o <<" ", " ", "ami", " ", "=", " ", "\"", "x", "\"", "\n">>
    \o <<"}", "\n">>

\* input text: resource "aws_instance" "web" { /   root_block_device { /     volume_size = 8 /   } /   tags = { /     Name = "x" /   } / }
NestedTaggedBlock ==
       <<"resource", " ", "\"", "aws_instance", "\"", " ", "\"", "web", "\"",
        " ", "{", "\n">>
    \o <<" ", " ", "root_block_device", " ", "{", "\n">>
    \o <<" ", " ", " ", " ", "volume_size", " ", "=", " ", "8", "\n">>
    \o <<" ", " ", "}", "\n">>
    \o <<" ", " ", "tags", " ", "=", " ", "{", "\n">>
    \o <<" ", " ", " ", " ", "Name", " ", "=", " ", "\"", "x", "\"", "\n">>
    \o <<" ", " ", "}", "\n">>
    \o <<"}", "\n">>

\* input text: resource "random_id" "suffix" { /   byte_length = 4 / }
OtherBlock ==
       <<"resource", " ", "\"", "random_id", "\"", " ", "\"", "suffix", "\"",
        " ", "{", "\n">>
    \o <<" ", " ", "byte_length", " ", "=", " ", "4", "\n">>
    \o <<"}", "\n">>

\* input text: # variable names
VariableComment ==
       <<"#", " ", "variable", " ", "names", "\n">>

\* input text: # output values
OutputComment ==
       <<"#", " ", "output", " ", "values", "\n">>

\* input text: terraform { /   required_version = ">= 1.2.0" / }
SettingsBlock ==
       <<"terraform", " ", "{", "\n">>
    \o <<" ", " ", "required_version", " ", "=", " ", "\"", ">=", " ", "1",
        ".", "2", ".", "0", "\"", "\n">>
    \o <<"}", "\n">>

\* input text: terraform  { /   required_version = ">= 1.2.0" / }
WideSettingsBlock ==
       <<"terraform", " ", " ", "{", "\n">>
    \o <<" ", " ", "required_version", " ", "=", " ", "\"", ">=", " ", "1",
        ".", "2", ".", "0", "\"", "\n">>
    \o <<"}", "\n">>

\* input text: provider "aws" { /   region = "us-east-1" / }
ProviderBlock ==
       <<"provider", " ", "\"", "aws", "\"", " ", "{", "\n">>
    \o <<" ", " ", "region", " ", "=", " ", "\"", "us-east-1", "\"", "\n">>
    \o <<"}", "\n">>

\* input text: variable "region" { /   type = string / }
VariableDecl ==
       <<"variable", " ", "\"", "region", "\"", " ", "{", "\n">>
    \o <<" ", " ", "type", " ", "=", " ", "string", "\n">>
    \o <<"}", "\n">>

\* input text: output "id" { /   value = aws_s3_bucket.main.id / }
OutputDecl ==
       <<"output", " ", "\"", "id", "\"", " ", "{", "\n">>
    \o <<" ", " ", "value", " ", "=", " ", "aws_s3_bucket", ".", "main", ".",
        "id", "\n">>
    \o <<"}", "\n">>

\* input text: resource "aws_instance" "web" { /   ami = "x" / }
InstanceBlock ==
       <<"resource", " ", "\"", "aws_instance", "\"", " ", "\"", "web", "\"",
        " ", "{", "\n">>
    \o <<" ", " ", "ami", " ", "=", " ", "\"", "x", "\"", "\n">>
    \o <<"}", "\n">>

\* input text: resource "aws_instance" "web" { /   ebs_block_device { /     device_name = "x" /   } /   monitoring = true / }
InstanceNested ==
       <<"resource", " ", "\"", "aws_instance", "\"", " ", "\"", "web", "\"",
        " ", "{", "\n">>
    \o <<" ", " ", "ebs_block_device", " ", "{", "\n">>
    \o <<" ", " ", " ", " ", "device_name", " ", "=", " ", "\"", "x", "\"",
        "\n">>
    \o <<" ", " ", "}", "\n">>
    \o <<" ", " ", "monitoring", " ", "=", " ", "true", "\n">>
    \o <<"}", "\n">>

\* input text: resource "aws_instance" "web" { /   credit_specification { cpu_credits = "standard" }}
InstanceTight ==
       <<"resource", " ", "\"", "aws_instance", "\"", " ", "\"", "web", "\"",
        " ", "{", "\n">>
    \o <<" ", " ", "credit_specification", " ", "{", " ", "cpu_credits", " ",
        "=", " ", "\"", "standard", "\"", " ", "}", "}", "\n">>

\* input text: resource "aws_instance" "web" { /   root_block_device { /     volume_size = 8 /   } / }
InstanceRootDevice ==
       <<"resource", " ", "\"", "aws_instance", "\"", " ", "\"", "web", "\"",
        " ", "{", "\n">>
    \o <<" ", " ", "root_block_device", " ", "{", "\n">>
    \o <<" ", " ", " ", " ", "volume_size", " ", "=", " ", "8", "\n">>
    \o <<" ", " ", "}", "\n">>
    \o <<"}", "\n">>

\* input text: resource "aws_vpc" "main" { /   cidr_block = "10.0.0.0/16" / }
VpcBlock ==
       <<"resource", " ", "\"", "aws_vpc", "\"", " ", "\"", "main", "\"",
        " ", "{", "\n">>
    \o <<" ", " ", "cidr_block", " ", "=", " ", "\"", "10", ".", "0", ".",
        "0", ".", "0/16", "\"", "\n">>
    \o <<"}", "\n">>

\* input text: # aws_s3_bucket_server_side_encryption_configuration is set elsewhere
EncryptionNote ==
       <<"#", " ", "aws_s3_bucket_server_side_encryption_configuration", " ",
        "is", " ", "set", " ", "elsewhere", "\n">>

\* input text: # access logging is required
LoggingNote ==
       <<"#", " ", "access", " ", "logging", " ", "is", " ", "required", "\n">>

\* input text: resource "aws_iam_role" "main" { /   name = "app" / }
RoleBlock ==
       <<"resource", " ", "\"", "aws_iam_role", "\"", " ", "\"", "main", "\"",
        " ", "{", "\n">>
    \o <<" ", " ", "name", " ", "=", " ", "\"", "app", "\"", "\n">>
    \o <<"}", "\n">>

\* input text: variable "labels" { /   default = { /     team = "x" /   } / }
VariableNested ==
       <<"variable", " ", "\"", "labels", "\"", " ", "{", "\n">>
    \o <<" ", " ", "default", " ", "=", " ", "{", "\n">>
    \o <<" ", " ", " ", " ", "team", " ", "=", " ", "\"", "x", "\"", "\n">>
    \o <<" ", " ", "}", "\n">>
    \o <<"}", "\n">>

\* input text: resource "aws_s3_bucket" "open" { /   bucket = "x"
UnclosedBlock ==
       <<"resource", " ", "\"", "aws_s3_bucket", "\"", " ", "\"", "open",
        "\"", " ", "{", "\n">>
    \o <<" ", " ", "bucket", " ", "=", " ", "\"", "x", "\"", "\n">>

\* input text: }
StrayBrace ==
       <<"}", "\n">>

\* input text: resource "aws_instance" "api" { /   monitoring = true / }
InstanceMonitored ==
       <<"resource", " ", "\"", "aws_instance", "\"", " ", "\"", "api", "\"",
        " ", "{", "\n">>
    \o <<" ", " ", "monitoring", " ", "=", " ", "true", "\n">>
    \o <<"}", "\n">>

\* input text: resource "aws_instance" "b" { /   ami = "x" /   monitoring = true / }
InstanceMonitoredToo ==
       <<"resource", " ", "\"", "aws_instance", "\"", " ", "\"", "b", "\"",
        " ", "{", "\n">>
    \o <<" ", " ", "ami", " ", "=", " ", "\"", "x", "\"", "\n">>
    \o <<" ", " ", "monitoring", " ", "=", " ", "true", "\n">>
    \o <<"}", "\n">>

\* input text: resource "aws_instance" "imds" { /   metadata_options { /     http_tokens = "required" /   } / }
InstanceMetadata ==
       <<"resource", " ", "\"", "aws_instance", "\"", " ", "\"", "imds",
        "\"", " ", "{", "\n">>
    \o <<" ", " ", "metadata_options", " ", "{", "\n">>
    \o <<" ", " ", " ", " ", "http_tokens", " ", "=", " ", "\"", "required",
        "\"", "\n">>
    \o <<" ", " ", "}", "\n">>
    \o <<"}", "\n">>

\* input text: resource "aws_security_group" "web" { /   name = "x" / }
SecurityGroup ==
       <<"resource", " ", "\"", "aws_security_group", "\"", " ", "\"", "web",
        "\"", " ", "{", "\n">>
    \o <<" ", " ", "name", " ", "=", " ", "\"", "x", "\"", "\n">>
    \o <<"}", "\n">>

\* input text: resource "aws_autoscaling_group" "web" { /   max_size = 2 / }
AutoscalingGroup ==
       <<"resource", " ", "\"", "aws_autoscaling_group", "\"", " ", "\"",
        "web", "\"", " ", "{", "\n">>
    \o <<" ", " ", "max_size", " ", "=", " ", "2", "\n">>
    \o <<"}", "\n">>

\* input text: resource "aws_s3_bucket_server_side_encryption_configuration" "main" { /   bucket = aws_s3_bucket.main.id / }
EncryptionConfig ==
       <<"resource", " ", "\"",
        "aws_s3_bucket_server_side_encryption_configuration", "\"", " ",
        "\"", "main", "\"", " ", "{", "\n">>
    \o <<" ", " ", "bucket", " ", "=", " ", "aws_s3_bucket", ".", "main",
        ".", "id", "\n">>
    \o <<"}", "\n">>

\* input text: resource "aws_subnet" "a" { /   vpc_id = aws_vpc.main.id / }
SubnetBlock ==
       <<"resource", " ", "\"", "aws_subnet", "\"", " ", "\"", "a", "\"",
        " ", "{", "\n">>
    \o <<" ", " ", "vpc_id", " ", "=", " ", "aws_vpc", ".", "main", ".",
        "id", "\n">>
    \o <<"}", "\n">>

\* check name: Ensure S3 bucket Encryption
EncryptionIssue ==
       <<"Ensure", " ", "S3", " ", "bucket", " ", "Encryption">>

\* check name: Block public access
PublicAccessIssue ==
       <<"Block", " ", "public", " ", "access">>

\* check name: Enable versioning
VersioningIssue ==
       <<"Enable", " ", "versioning">>

\* check name: Enable access logging
LoggingIssue ==
       <<"Enable", " ", "access", " ", "logging">>

\* check name: Ensure IMDSv2
MetadataIssue ==
       <<"Ensure", " ", "IMDSv2">>

\* check name: Ensure EBS encryption
EbsIssue ==
       <<"Ensure", " ", "EBS", " ", "encryption">>

\* check name: Enable detailed monitoring
MonitoringIssue ==
       <<"Enable", " ", "detailed", " ", "monitoring">>

\* check name: Require IMDSv2 and monitoring
MetadataMonitoringIssue ==
       <<"Require", " ", "IMDSv2", " ", "and", " ", "monitoring">>

\* check name: Enable VPC flow logs
FlowLogIssue ==
       <<"Enable", " ", "VPC", " ", "flow", " ", "logs">>

\* check name: Enable DNS support
DnsIssue ==
       <<"Enable", " ", "DNS", " ", "support">>

(***************************************************************************)
(* TerraformService.process_terraform                                      *)
(***************************************************************************)
Families == {"s3", "ec2", "vpc"}

variables_block(svc) ==
    CASE svc = "s3" -> variables_block_s3
      [] svc = "ec2" -> variables_block_ec2
      [] svc = "vpc" -> variables_block_vpc

outputs_block(svc) ==
    CASE svc = "s3" -> outputs_block_s3
      [] svc = "ec2" -> outputs_block_ec2
      [] svc = "vpc" -> outputs_block_vpc

\* lines 45-57: if "terraform {" not in terraform_code
WithTerraformBlock(code) ==
    IF ~InSeq(<<"terraform", " ", "{">>, code)
    THEN terraform_block \o <<"\n">> \o code
    ELSE code

\* lines 60-66: if "provider \"aws\"" not in terraform_code
WithProviderBlock(code) ==
    IF ~InSeq(<<"provider", " ", Quote, "aws", Quote>>, code)
    THEN code \o <<"\n">> \o provider_block
    ELSE code

\* lines 69-107: elif chain over service_type, "variable" not in code
WithVariablesBlock(code, svc) ==
    IF svc \in Families /\ ~In("variable", code)
    THEN code \o <<"\n">> \o variables_block(svc)
    ELSE code

\* lines 110-164: if "output" not in terraform_code
WithOutputsBlock(code, svc) ==
    IF ~In("output", code) /\ svc \in Families
    THEN code \o <<"\n">> \o outputs_block(svc)
    ELSE code

\* lines 44-164: the section-insertion part of process_terraform
InsertSections(code, svc) ==
    WithOutputsBlock(
        WithVariablesBlock(WithProviderBlock(WithTerraformBlock(code)), svc),
        svc)

(***************************************************************************)
(* TerraformService._add_tags_to_resources                                 *)
(***************************************************************************)
\* lines 188-195
var_name(svc) ==
    CASE svc = "s3" -> "bucket_name"
      [] svc = "ec2" -> "instance_name"
      [] svc = "vpc" -> "vpc_name"
      [] OTHER -> "name"

\* (\s*\n|\s*$) after the brace at index j: the last index of the group
\* (j when the group is empty), 0 when neither alternative matches
TagTail(text, j) ==
    LET r == FirstNot(text, j + 1, Spaces)
        n == Last(text, j + 1, r - 1, {"\n"})
    IN  IF n > j THEN n
        ELSE IF r = Len(text) + 1 THEN Len(text)
        ELSE 0

\* resource_pattern after its header h: (?:(?!tags).)*?} up to the first
\* closing brace that no "tags" precedes and that the tail follows
TagBody(text, h) ==
    IF h.open = 0 THEN NoMatch
    ELSE LET stop == FirstWith(text, h.open + 1, "tags")
             close == CHOOSE j \in (h.open + 1)..stop :
                /\ \/ j = stop
                   \/ text[j] = "}" /\ TagTail(text, j) # 0
                /\ \A k \in (h.open + 1)..(j - 1) :
                      ~(text[k] = "}" /\ TagTail(text, k) # 0)
         IN  IF close = stop THEN NoMatch
             ELSE [open |-> h.open, type |-> h.type,
                   close |-> close, end |-> TagTail(text, close)]

\* resource_pattern at index p
TagMatch(text, p) == TagBody(text, ResourceHeader(text, p))

\* resource_type.startswith("aws_")
StartsWithAws(type) == type[1] \in AwsWords

\* add_tags(match), lines 198-207
add_tags(text, p, m, svc) ==
    IF StartsWithAws(m.type)
    THEN SubSeq(text, p, m.close)
         \o (IF text[m.close] # "\n" THEN <<"\n">> ELSE <<>>)
         \o default_tags(var_name(svc))
         \o SubSeq(text, m.close + 1, m.end)
    ELSE SubSeq(text, p, m.end)

\* the first index >= from where resource_pattern matches
NextTagMatch(text, from) ==
    CHOOSE i \in from..(Len(text) + 1) :
        /\ (i = Len(text) + 1 \/ TagMatch(text, i).open # 0)
        /\ \A k \in from..(i - 1) : TagMatch(text, k).open = 0

\* re.sub(resource_pattern, add_tags, text) from index from on
RECURSIVE TagSub(_, _, _)

\* the match m at index p replaced by add_tags(m), then the rest of the text
TagSubMatch(text, from, p, m, svc) ==
    SubSeq(text, from, p - 1) \o add_tags(text, p, m, svc)
        \o TagSub(text, m.end + 1, svc)

\* the text from index from on, its next match standing at index p
TagSubAt(text, from, p, svc) ==
    IF p > Len(text) THEN SubSeq(text, from, Len(text))
    ELSE TagSubMatch(text, from, p, TagMatch(text, p), svc)

TagSub(text, from, svc) ==
    TagSubAt(text, from, NextTagMatch(text, from), svc)

add_tags_to_resources(code, svc) == TagSub(code, 1, svc)

\* process_terraform, lines 42-169
process_terraform(code, svc) ==
    add_tags_to_resources(InsertSections(code, svc), svc)

(***************************************************************************)
(* TerraformService.add_documentation: the header comment and the comment  *)
(* of each documented resource type of the family.                         *)
(***************************************************************************)
\* service_type.upper()
Upper(svc) ==
    CASE svc = "s3" -> "S3"
      [] svc = "ec2" -> "EC2"
      [] svc = "vpc" -> "VPC"
      [] OTHER -> svc

\* resource\s+"<type>"\s+"[^"]+"\s+{ matches at p
HeaderOfType(text, p, type) ==
    /\ text[p] = "resource"
    /\ ResourceHeader(text, p).open # 0
    /\ ResourceHeader(text, p).type = <<type>>

\* where the first match of the pattern at or after from starts,
\* Len(text) + 1 when there is none
NextHeader(text, from, type) ==
    CHOOSE p \in from..(Len(text) + 1) :
        /\ (p = Len(text) + 1 \/ HeaderOfType(text, p, type))
        /\ \A k \in from..(p - 1) : ~HeaderOfType(text, k, type)

\* re.sub(r'(resource\s+"<type>"\s+"[^"]+"\s+{)', doc + '\n\\1', text) on
\* the text from index from on: p is where the next match starts
RECURSIVE DocSubFrom(_, _, _, _)
DocSubAt(text, from, type, doc, p) ==
    IF p > Len(text) THEN SubSeq(text, from, Len(text))
    ELSE SubSeq(text, from, p - 1) \o doc \o <<"\n">>
         \o SubSeq(text, p, ResourceHeader(text, p).open)
         \o DocSubFrom(text, ResourceHeader(text, p).open + 1, type, doc)

DocSubFrom(text, from, type, doc) ==
    DocSubAt(text, from, type, doc, NextHeader(text, from, type))

DocSub(text, type, doc) == DocSubFrom(text, 1, type, doc)

\* the substitutions of a family one after the other: for each of the
\* first n entries the resource type and the key of its template
RECURSIVE DocSubs(_, _, _, _)
DocSubs(text, table, entries, n) ==
    IF n = 0 THEN text
    ELSE DocSub(DocSubs(text, table, entries, n - 1), entries[n][1],
                documentation_templates[table][entries[n][2]])

\* _add_s3_documentation, lines 239-290
add_s3_documentation(text) ==
    DocSubs(text, "aws_s3_bucket",
            <<<<"aws_s3_bucket", "standard">>,
              <<"aws_s3_bucket_server_side_encryption_configuration",
                "encryption">>,
              <<"aws_s3_bucket_versioning", "versioning">>,
              <<"aws_s3_bucket_logging", "logging">>,
              <<"aws_s3_bucket_lifecycle_configuration", "lifecycle">>,
              <<"aws_s3_bucket_cors_configuration", "cors">>,
              <<"aws_s3_bucket_public_access_block",
                "public_access_block">>>>, 7)

\* resource\s+"aws_instance"[^{]*{ at p: the index of the brace, 0 when
\* there is no match
InstanceOpen(text, p) ==
    IF text[p] # "resource" THEN 0
    ELSE IF SpacesThen(text, p + 1) = 0 THEN 0
    ELSE IF ~OccursAt(<<Quote, "aws_instance", Quote>>, text,
                      SpacesThen(text, p + 1)) THEN 0
    ELSE IF First(text, SpacesThen(text, p + 1) + 3, {"{"}) > Len(text)
    THEN 0
    ELSE First(text, SpacesThen(text, p + 1) + 3, {"{"})

\* monitoring\s*=\s*true at m
MonitoringTrue(text, m) ==
    /\ text[m] = "monitoring"
    /\ FirstNot(text, m + 1, Spaces) <= Len(text)
    /\ text[FirstNot(text, m + 1, Spaces)] = "="
    /\ FirstNot(text, FirstNot(text, m + 1, Spaces) + 1, Spaces) <= Len(text)
    /\ text[FirstNot(text, FirstNot(text, m + 1, Spaces) + 1, Spaces)]
          = "true"

\* {[^}]*monitoring\s*=\s*true[^}]*} with the brace at open
MonitoringInside(text, open) ==
    /\ First(text, open + 1, {"}"}) <= Len(text)
    /\ \E m \in (open + 1)..(First(text, open + 1, {"}"}) - 1) :
          MonitoringTrue(text, m)

\* the pattern of line 311 matches at p
MonitoredInstance(text, p) ==
    /\ InstanceOpen(text, p) # 0
    /\ MonitoringInside(text, InstanceOpen(text, p))

\* re.search of line 312: where the first match starts, 0 when none
MonitoringSearch(text) ==
    IF \E p \in DOMAIN text : MonitoredInstance(text, p)
    THEN CHOOSE p \in DOMAIN text :
            /\ MonitoredInstance(text, p)
            /\ \A k \in 1..(p - 1) : ~MonitoredInstance(text, k)
    ELSE 0

\* lines 314-324: the comment goes in at the last newline before the match
InsertMonitoring(text, start_pos, prev_newline) ==
    IF start_pos = 0 \/ prev_newline = 0 THEN text
    ELSE SubSeq(text, 1, prev_newline - 1)
         \o <<"\n">> \o documentation_templates.aws_ec2_instance.monitoring
         \o SubSeq(text, prev_newline, Len(text))

\* lines 308-324
monitoring_documentation(text) ==
    IF ~InSeq(<<"monitoring", " ", "=", " ", "true">>, text) THEN text
    ELSE InsertMonitoring(text, MonitoringSearch(text),
             Last(text, 1, MonitoringSearch(text) - 1, {"\n"}))

\* the pattern of line 329 matches at p
MetadataInstance(text, p) ==
    /\ InstanceOpen(text, p) # 0
    /\ First(text, InstanceOpen(text, p) + 1, {"}"}) <= Len(text)
    /\ \E m \in (InstanceOpen(text, p) + 1)
                  ..(First(text, InstanceOpen(text, p) + 1, {"}"}) - 1) :
          "metadata_options" \in KeywordsIn(text[m])

\* \s+metadata_options\s*{ with the word at q
MetadataHeader(text, q) ==
    /\ text[q] = "metadata_options"
    /\ q > 1
    /\ text[q - 1] \in Spaces
    /\ FirstNot(text, q + 1, Spaces) <= Len(text)
    /\ text[FirstNot(text, q + 1, Spaces)] = "{"

\* the word of the first match whose word stands at or after from,
\* Len(text) + 1 when there is none
NextMetadata(text, from) ==
    CHOOSE q \in from..(Len(text) + 1) :
        /\ (q = Len(text) + 1 \/ MetadataHeader(text, q))
        /\ \A k \in from..(q - 1) : ~MetadataHeader(text, k)

\* where the whitespace before the word at q starts, not before from
RunStart(text, from, q) ==
    CHOOSE s \in from..(q - 1) :
        /\ \A k \in s..(q - 1) : text[k] \in Spaces
        /\ s = from \/ text[s - 1] \notin Spaces

\* the re.sub of lines 333-337 on the text from index from on
RECURSIVE MetadataSubFrom(_, _)
MetadataSubAt(text, from, q) ==
    IF q > Len(text) THEN SubSeq(text, from, Len(text))
    ELSE SubSeq(text, from, RunStart(text, from, q) - 1)
         \o <<"\n", " ", " ">>
         \o documentation_templates.aws_ec2_instance.instance_metadata
         \o <<"\n">>
         \o SubSeq(text, RunStart(text, from, q),
                   FirstNot(text, q + 1, Spaces))
         \o MetadataSubFrom(text, FirstNot(text, q + 1, Spaces) + 1)

MetadataSubFrom(text, from) ==
    MetadataSubAt(text, from, NextMetadata(text, from + 1))

\* lines 326-337
metadata_documentation(text) ==
    IF /\ In("metadata_options", text)
       /\ \E p \in DOMAIN text : MetadataInstance(text, p)
    THEN MetadataSubFrom(text, 1)
    ELSE text

\* lines 339-345
auto_scaling_documentation(text) ==
    IF In("aws_autoscaling_group", text)
    THEN DocSub(text, "aws_autoscaling_group",
                documentation_templates.aws_ec2_instance.auto_scaling)
    ELSE text

\* _add_ec2_documentation, lines 292-347
add_ec2_documentation(text) ==
    auto_scaling_documentation(
        metadata_documentation(
            monitoring_documentation(
                DocSubs(text, "aws_ec2_instance",
                        <<<<"aws_instance", "standard">>,
                          <<"aws_security_group", "security_groups">>>>,
                        2))))

\* _add_vpc_documentation, lines 349-386
add_vpc_documentation(text) ==
    DocSubs(text, "aws_vpc",
            <<<<"aws_vpc", "standard">>,
              <<"aws_subnet", "subnet_config">>,
              <<"aws_nat_gateway", "nat_gateway">>,
              <<"aws_flow_log", "flow_logs">>,
              <<"aws_network_acl", "network_acl">>>>, 5)

\* add_documentation, lines 211-237
add_documentation(code, svc) ==
    CASE svc = "s3" -> add_s3_documentation(header_doc(Upper(svc)) \o code)
      [] svc = "ec2" -> add_ec2_documentation(header_doc(Upper(svc)) \o code)
      [] svc = "vpc" -> add_vpc_documentation(header_doc(Upper(svc)) \o code)
      [] OTHER -> header_doc(Upper(svc)) \o code

(***************************************************************************)
(* ScannerService.auto_remediate                                           *)
(***************************************************************************)
\* issue.lower()
Lower(issue) == [i \in DOMAIN issue |-> LowerWord(issue[i])]

\* keyword in issue.lower()
Mentions(issue, keyword) ==
    \E i \in DOMAIN issue : keyword \in IssueKeywordsIn(Lower(issue)[i])

\* _remediate_s3_issues, lines 217-310
remediate_s3_issues(code, resource_name, issue) ==
    LET c1 == IF /\ Mentions(issue, "encryption")
                 /\ ~In("aws_s3_bucket_server_side_encryption_configuration",
                        code)
              THEN code \o encryption_block(resource_name)
              ELSE code
        c2 == IF /\ Mentions(issue, "public") /\ Mentions(issue, "access")
                 /\ ~In("aws_s3_bucket_public_access_block", c1)
              THEN c1 \o public_access_block(resource_name)
              ELSE c1
        c3 == IF /\ Mentions(issue, "versioning")
                 /\ ~In("aws_s3_bucket_versioning", c2)
              THEN c2 \o versioning_block(resource_name)
              ELSE c2
        c4 == IF In("aws_s3_bucket", c3) /\ ~In("logging", c3)
              THEN c3 \o logging_bucket(resource_name)
              ELSE c3
    IN  IF Mentions(issue, "logging") /\ ~In("aws_s3_bucket_logging", c3)
        THEN c4 \o logging_config(resource_name)
        ELSE c3

\* resource\s+"<type>"\s+"<name>"\s+{(.*?)}+ after its header h: the
\* header has the given type and name, the content runs up to the first
\* closing brace, then comes every closing brace that follows it directly
BlockBody(text, h, type, resource_name) ==
    IF h.open = 0 THEN NoMatch
    ELSE IF h.type # <<type>> \/ h.name # <<resource_name>> THEN NoMatch
    ELSE LET close == First(text, h.open + 1, {"}"})
         IN  IF close > Len(text) THEN NoMatch
             ELSE [open |-> h.open, close |-> close,
                   end |-> FirstNot(text, close, {"}"}) - 1]

\* the pattern at index p
BlockMatch(text, p, type, resource_name) ==
    BlockBody(text, ResourceHeader(text, p), type, resource_name)

\* the first index where the pattern matches, Len(text) + 1 when none
BlockStart(text, type, resource_name) ==
    CHOOSE i \in 1..(Len(text) + 1) :
        /\ \/ i = Len(text) + 1
           \/ BlockMatch(text, i, type, resource_name).open # 0
        /\ \A k \in 1..(i - 1) :
              BlockMatch(text, k, type, resource_name).open = 0

\* the match at index p as [start, open, close, end], start = 0 when p is
\* past the text
BlockAt(text, p, type, resource_name) ==
    IF p > Len(text) THEN [start |-> 0]
    ELSE [start |-> p] @@ BlockMatch(text, p, type, resource_name)

\* re.search(pattern, code, re.DOTALL): the leftmost match
BlockSearch(text, type, resource_name) ==
    BlockAt(text, BlockStart(text, type, resource_name), type, resource_name)

\* root_block_device\s+{(.*?)} searched in the instance content: the
\* first and the last index of the match, <<0, 0>> when there is none
RootDeviceSearch(content) ==
    LET ok(i) == LET f == SpacesThen(content, i + 1)
                 IN  /\ content[i] = "root_block_device"
                     /\ f # 0 /\ f <= Len(content) /\ content[f] = "{"
                     /\ First(content, f + 1, {"}"}) <= Len(content)
        p == CHOOSE i \in 1..(Len(content) + 1) :
                /\ (i = Len(content) + 1 \/ ok(i))
                /\ \A k \in 1..(i - 1) : ~ok(k)
    IN  IF p > Len(content) THEN <<0, 0>>
        ELSE <<p, First(content, SpacesThen(content, p + 1) + 1, {"}"})>>

\* lines 325-337 with the patch put in place of every closing brace
metadata_rule_unclosed(code, instance_block, instance_content, issue) ==
    IF /\ Mentions(issue, "metadata") \/ Mentions(issue, "imdsv2")
       /\ ~In("metadata_options", instance_content)
    THEN Replace(code, instance_block,
             Replace(instance_block, <<"}">>, metadata_options))
    ELSE code

\* lines 325-337: metadata_options put before every closing brace of
\* instance_block
metadata_rule(code, instance_block, instance_content, issue) ==
    IF /\ Mentions(issue, "metadata") \/ Mentions(issue, "imdsv2")
       /\ ~In("metadata_options", instance_content)
    THEN Replace(code, instance_block,
             Replace(instance_block, <<"}">>, metadata_options \o <<"}">>))
    ELSE code

\* lines 352-363: encrypted = true put into the root_block_device found at
\* root in instance_content
encrypt_root_device(code, instance_block, instance_content, root) ==
    IF root[1] = 0 THEN code
    ELSE Replace(code, instance_block,
             Replace(instance_block,
                     SubSeq(instance_content, root[1], root[2]),
                     Replace(SubSeq(instance_content, root[1], root[2]),
                             <<"}">>, encrypted_patch)))

\* lines 340-363
ebs_rule(code, instance_block, instance_content, issue) ==
    IF Mentions(issue, "encryption") /\ Mentions(issue, "ebs")
    THEN IF ~In("root_block_device", instance_content)
         THEN Replace(code, instance_block,
                  Replace(instance_block, <<"}">>,
                          root_block_device \o <<"}">>))
         ELSE IF /\ In("root_block_device", instance_content)
                 /\ ~In("encrypted", instance_content)
         THEN encrypt_root_device(code, instance_block, instance_content,
                                  RootDeviceSearch(instance_content))
         ELSE code
    ELSE code

\* lines 366-370
monitoring_rule(code, instance_block, instance_content, issue) ==
    IF Mentions(issue, "monitoring") /\ ~In("monitoring", instance_content)
    THEN Replace(code, instance_block,
             Replace(instance_block, <<"}">>, monitoring_patch))
    ELSE code

\* lines 324-370: the three rules in turn, each looking for the
\* instance_block and the instance_content taken before the first rule
ec2_rules(code, instance_block, instance_content, issue) ==
    monitoring_rule(
        ebs_rule(
            metadata_rule(code, instance_block, instance_content, issue),
            instance_block, instance_content, issue),
        instance_block, instance_content, issue)

\* lines 317-322: the match m of the instance pattern in code
ec2_match(code, m, issue) ==
    IF m.start = 0 THEN code
    ELSE ec2_rules(code, SubSeq(code, m.start, m.end),
                   SubSeq(code, m.open + 1, m.close - 1), issue)

\* _remediate_ec2_issues, lines 312-372
remediate_ec2_issues(code, resource_name, issue) ==
    ec2_match(code, BlockSearch(code, "aws_instance", resource_name), issue)

\* lines 389-448: the role is added to the text only with the flow log
flow_log_rule(code, resource_name, issue) ==
    IF /\ Mentions(issue, "flow") /\ Mentions(issue, "log")
       /\ ~In("aws_flow_log", code)
    THEN (IF In("aws_iam_role", code) THEN code ELSE code \o iam_role)
         \o flow_logs(resource_name)
    ELSE code

\* lines 451-456
dns_rule(code, vpc_block, vpc_content, issue) ==
    IF Mentions(issue, "dns") /\ ~In("enable_dns_support", vpc_content)
    THEN Replace(code, vpc_block, Replace(vpc_block, <<"}">>, dns_patch))
    ELSE code

\* lines 379-384: the match m of the vpc pattern in code
vpc_match(code, m, resource_name, issue) ==
    IF m.start = 0 THEN code
    ELSE dns_rule(flow_log_rule(code, resource_name, issue),
                  SubSeq(code, m.start, m.end),
                  SubSeq(code, m.open + 1, m.close - 1), issue)

\* _remediate_vpc_issues, lines 374-458
remediate_vpc_issues(code, resource_name, issue) ==
    vpc_match(code, BlockSearch(code, "aws_vpc", resource_name),
              resource_name, issue)

\* issue.get(key, ""), lines 186-187
Get(issue, key) == IF key \in DOMAIN issue THEN issue[key] ELSE <<>>

\* re.match(r'^([a-zA-Z0-9_]+)\.([a-zA-Z0-9_]+)$', resource), line 194;
\* $ also matches before one final newline
ResourceMatch(resource) ==
    /\ Len(resource) \in {3, 4}
    /\ resource[1] \in IdentWords
    /\ resource[2] = "."
    /\ resource[3] \in IdentWords
    /\ Len(resource) = 4 => resource[4] = "\n"

\* the body of the loop over scan_results, lines 185-213
remediate_issue(code, issue) ==
    LET resource == Get(issue, "resource")
        description == Get(issue, "description")
    IN  IF resource = <<>> \/ description = <<>> THEN code
        ELSE IF ~ResourceMatch(resource) THEN code
        ELSE LET resource_type == resource[1]
                 resource_name == resource[3]
             IN  CASE resource_type = "aws_s3_bucket" ->
                        remediate_s3_issues(code, resource_name, description)
                   [] resource_type = "aws_instance" ->
                        remediate_ec2_issues(code, resource_name, description)
                   [] resource_type = "aws_vpc" ->
                        remediate_vpc_issues(code, resource_name, description)
                   [] OTHER -> code

\* auto_remediate over the first n findings of the list
RECURSIVE RemediateFirst(_, _, _)
RemediateFirst(code, results, n) ==
    IF n = 0 THEN code
    ELSE remediate_issue(RemediateFirst(code, results, n - 1), results[n])

\* auto_remediate, lines 181-215
auto_remediate(code, results) == RemediateFirst(code, results, Len(results))

(***************************************************************************)
(* ScannerService.calculate_security_score                                 *)
(***************************************************************************)
\* self.scan_severity_weights, in tenths
scan_severity_weights ==
    [HIGH |-> 10, MEDIUM |-> 5, LOW |-> 2, INFO |-> 0]

\* the order in which Python iterates the weights dict
SeverityOrder == <<"HIGH", "MEDIUM", "LOW", "INFO">>

\* issue.get("severity", "LOW")
SeverityOf(issue) ==
    IF "severity" \in DOMAIN issue THEN issue.severity ELSE "LOW"

\* the counting loop: severity_counts after the issues 1..n were visited
RECURSIVE CountSeverities(_, _)
CountSeverities(results, n) ==
    IF n = 0
    THEN [s \in DOMAIN scan_severity_weights |-> 0]
    ELSE LET counts == CountSeverities(results, n - 1)
             severity == SeverityOf(results[n])
         IN  IF severity \in DOMAIN counts
             THEN [counts EXCEPT ![severity] = @ + 1]
             ELSE counts

\* sum(self.scan_severity_weights.values()), in tenths
RECURSIVE SumWeights(_)
SumWeights(n) ==
    IF n = 0 THEN 0
    ELSE SumWeights(n - 1) + scan_severity_weights[SeverityOrder[n]]

total_weight == SumWeights(Len(SeverityOrder))

\* numerator of weighted_deduction over the denominator total_weight
RECURSIVE WeightedCount(_, _)
WeightedCount(counts, n) ==
    IF n = 0 THEN 0
    ELSE WeightedCount(counts, n - 1)
         + counts[SeverityOrder[n]] * scan_severity_weights[SeverityOrder[n]]

BaseScore == 100
DeductionScale == 20

\* round(num / den, 0) for den > 0: nearest integer, ties to the even one
RoundDiv(num, den) ==
    LET q == num \div den
        r == num % den
    IN  IF 2 * r < den THEN q
        ELSE IF 2 * r > den THEN q + 1
        ELSE IF q % 2 = 0 THEN q ELSE q + 1

\* the raw score cut to one decimal instead of rounded
RoundedRawScoreTruncated(weighted) ==
    (10 * (BaseScore * total_weight - DeductionScale * weighted))
        \div total_weight

\* round(raw_score, 1) in tenths, raw_score = 100 - weighted_deduction * 20
\* with weighted_deduction = weighted / total_weight
RoundedRawScore(weighted) ==
    RoundDiv(10 * (BaseScore * total_weight - DeductionScale * weighted),
             total_weight)

Min(a, b) == IF a < b THEN a ELSE b
Max(a, b) == IF a > b THEN a ELSE b

ClampNoFloor(score) == Min(10 * BaseScore, score)

\* max(0, min(100, score))
Clamp(score) == Max(0, Min(10 * BaseScore, score))

calculate_security_score_empty_zero(results) ==
    IF results = <<>> THEN 0
    ELSE Clamp(RoundedRawScore(
             WeightedCount(CountSeverities(results, Len(results)),
                           Len(SeverityOrder))))

calculate_security_score(results) ==
    IF results = <<>> THEN 10 * BaseScore
    ELSE Clamp(RoundedRawScore(
             WeightedCount(CountSeverities(results, Len(results)),
                           Len(SeverityOrder))))

(***************************************************************************)
(* FormatterService.generate_module_structure                              *)
(***************************************************************************)
BlockKinds == {"terraform", "provider", "variable", "resource", "output"}

\* the header of the extraction pattern of a kind at index p, lines 282,
\* 289, 296, 301 and 306
HeaderOf(text, p, kind) ==
    CASE kind = "terraform" -> Header0(text, p, "terraform")
      [] kind = "resource" -> ResourceHeader(text, p)
      [] OTHER -> Header1(text, p, kind)

\* {.*?} after the header h: the index of the first closing brace after the
\* opening one, 0 when the header or the brace is missing
LazyClose(text, h) ==
    IF h.open = 0 THEN 0
    ELSE IF First(text, h.open + 1, {"}"}) > Len(text) THEN 0
    ELSE First(text, h.open + 1, {"}"})

\* the extraction pattern of a kind at index p: the last index of the
\* match, 0 when it does not match there
ExtractEnd(text, p, kind) == LazyClose(text, HeaderOf(text, p, kind))

\* the first index >= from where the pattern matches, Len(text) + 1 when
\* none
NextExtract(text, from, kind) ==
    CHOOSE i \in from..(Len(text) + 1) :
        /\ (i = Len(text) + 1 \/ ExtractEnd(text, i, kind) # 0)
        /\ \A k \in from..(i - 1) : ExtractEnd(text, k, kind) = 0

\* re.findall(pattern, text, re.DOTALL) from index from on: the matches,
\* left to right, each search starting after the match before it
RECURSIVE FindAll(_, _, _)

FindAllMatch(text, p, close, kind) ==
    <<SubSeq(text, p, close)>> \o FindAll(text, close + 1, kind)

FindAllAt(text, p, kind) ==
    IF p > Len(text) THEN <<>>
    ELSE FindAllMatch(text, p, ExtractEnd(text, p, kind), kind)

FindAll(text, from, kind) ==
    FindAllAt(text, NextExtract(text, from, kind), kind)

\* re.search(pattern, text, re.DOTALL): group(0) of the first match, ""
\* when there is none
SearchAt(text, p, kind) ==
    IF p > Len(text) THEN <<>>
    ELSE SubSeq(text, p, ExtractEnd(text, p, kind))

extract_terraform_block(code) ==
    SearchAt(code, NextExtract(code, 1, "terraform"), "terraform")

extract_provider_block(code) ==
    SearchAt(code, NextExtract(code, 1, "provider"), "provider")

extract_variable_blocks(code) == FindAll(code, 1, "variable")

extract_resource_blocks(code) == FindAll(code, 1, "resource")

extract_output_blocks(code) == FindAll(code, 1, "output")

\* lines 249-253
extract_blocks(code) ==
    [resource |-> extract_resource_blocks(code),
     terraform |-> extract_terraform_block(code),
     provider |-> extract_provider_block(code),
     variable |-> extract_variable_blocks(code),
     output |-> extract_output_blocks(code)]

\* "\n\n".join(blocks)
RECURSIVE Join(_)
Join(blocks) ==
    IF blocks = <<>> THEN <<>>
    ELSE IF Len(blocks) = 1 THEN blocks[1]
    ELSE blocks[1] \o <<"\n", "\n">> \o Join(Tail(blocks))

\* main.tf, lines 256-264
main_tf(blocks) ==
    (IF blocks.terraform # <<>>
     THEN blocks.terraform \o <<"\n", "\n">> ELSE <<>>)
    \o (IF blocks.provider # <<>>
        THEN blocks.provider \o <<"\n", "\n">> ELSE <<>>)
    \o Join(blocks.resource)

\* the heading of the README, lines 311-353
readme_title(svc) ==
    CASE svc = "s3" -> <<"#", " ", "Secure", " ", "S3", " ", "Bucket">>
      [] svc = "ec2" -> <<"#", " ", "Secure", " ", "EC2", " ", "Instance">>
      [] svc = "vpc" -> <<"#", " ", "Secure", " ", "VPC">>

\* the files of the module, lines 255-278: a file name maps to its text
module_structure(blocks, svc) ==
    [name \in {"main.tf", "README.md"}
              \cup (IF blocks.variable # <<>> THEN {"variables.tf"} ELSE {})
              \cup (IF blocks.output # <<>> THEN {"outputs.tf"} ELSE {})
       |-> CASE name = "main.tf" -> main_tf(blocks)
             [] name = "variables.tf" -> Join(blocks.variable)
             [] name = "outputs.tf" -> Join(blocks.output)
             [] name = "README.md" -> readme_title(svc)]

\* generate_module_structure, lines 239-278
generate_module_structure(code, svc) ==
    module_structure(extract_blocks(code), svc)

(***************************************************************************)
(* FormatterService._custom_format                                         *)
(***************************************************************************)
\* n spaces
RECURSIVE Indent(_)
Indent(n) == IF n <= 0 THEN <<>> ELSE <<" ">> \o Indent(n - 1)

\* \n\s*\n at index i: the index of its last newline, i when no match
SeparatorEnd(text, i) ==
    IF text[i] # "\n" THEN i
    ELSE Last(text, i + 1, FirstNot(text, i, Spaces) - 1, {"\n"})

\* the first index >= from where \n\s*\n matches, Len(text) + 1 when none
NextSeparator(text, from) ==
    CHOOSE i \in from..(Len(text) + 1) :
        /\ (i = Len(text) + 1 \/ SeparatorEnd(text, i) > i)
        /\ \A k \in from..(i - 1) : SeparatorEnd(text, k) = k

\* the loop over content.split('\n') of the four blocks that indent every
\* line alike, lines 98-112, 134-139, 161-166, 188-193: the lines kept,
\* from index from of content on
RECURSIVE format_lines(_, _)
format_lines(content, from) ==
    IF from > Len(content) + 1 THEN <<>>
    ELSE (IF Strip(SubSeq(content, from,
                          First(content, from, {"\n"}) - 1)) = <<>>
          THEN <<>>
          ELSE <<Indent(2)
                 \o Strip(SubSeq(content, from,
                                 First(content, from, {"\n"}) - 1))>>)
         \o format_lines(content, First(content, from, {"\n"}) + 1)

\* the line stripped is given: lines 221-232 for one line of a terraform
\* block
RECURSIVE format_terraform_lines(_, _, _)
terraform_line(content, from, current_indent, stripped) ==
    IF stripped = <<>>
    THEN format_terraform_lines(content, First(content, from, {"\n"}) + 1,
                                current_indent)
    ELSE IF stripped[Len(stripped)] = "{"
    THEN <<Indent(current_indent) \o stripped>>
         \o format_terraform_lines(content,
                                   First(content, from, {"\n"}) + 1,
                                   current_indent + 2)
    ELSE IF stripped = <<"}">>
    THEN <<Indent(current_indent - 2) \o stripped>>
         \o format_terraform_lines(content,
                                   First(content, from, {"\n"}) + 1,
                                   current_indent - 2)
    ELSE <<Indent(current_indent) \o stripped>>
         \o format_terraform_lines(content,
                                   First(content, from, {"\n"}) + 1,
                                   current_indent)

\* the loop of _format_terraform_block, lines 217-232
format_terraform_lines(content, from, current_indent) ==
    IF from > Len(content) + 1 THEN <<>>
    ELSE terraform_line(content, from, current_indent,
             Strip(SubSeq(content, from, First(content, from, {"\n"}) - 1)))

\* '\n'.join(formatted_lines)
RECURSIVE JoinLines(_)
JoinLines(lines) ==
    IF lines = <<>> THEN <<>>
    ELSE IF Len(lines) = 1 THEN lines[1]
    ELSE lines[1] \o <<"\n">> \o JoinLines(Tail(lines))

\* f"{prefix}{open_brace}\n{formatted_content}\n{close_brace}"
reconstruct(prefix, lines) ==
    prefix \o <<"{", "\n">> \o JoinLines(lines) \o <<"\n", "}">>

\* _format_resource_block, _format_variable_block, _format_output_block,
\* _format_provider_block: the header matched with its opening brace at
\* open, (.*?)(}) ends at the first closing brace, close
format_labelled_block(block, open, close) ==
    IF close > Len(block) THEN block
    ELSE reconstruct(SubSeq(block, 1, open - 1),
                     format_lines(SubSeq(block, open + 1, close - 1), 1))

\* _format_terraform_block, lines 202-237
format_terraform_block(block, open, close) ==
    IF close > Len(block) THEN block
    ELSE reconstruct(SubSeq(block, 1, open - 1),
             format_terraform_lines(SubSeq(block, open + 1, close - 1),
                                    1, 2))

\* the opening brace of the header that re.match finds at p, after \s*,
\* for the labelled kinds of lines 52-67; 0 when none matches
LabelledOpen(block, p) ==
    IF ResourceHeader(block, p).open # 0 THEN ResourceHeader(block, p).open
    ELSE IF Header1(block, p, "variable").open # 0
    THEN Header1(block, p, "variable").open
    ELSE IF Header1(block, p, "output").open # 0
    THEN Header1(block, p, "output").open
    ELSE Header1(block, p, "provider").open

\* the body of the loop of _custom_format, lines 52-75, for a block whose
\* first token that is not white space stands at p
format_block_at(block, p) ==
    IF p > Len(block) THEN block
    ELSE IF LabelledOpen(block, p) # 0
    THEN format_labelled_block(block, LabelledOpen(block, p),
             First(block, LabelledOpen(block, p) + 1, {"}"}))
    ELSE IF Header0(block, p, "terraform").open # 0
    THEN format_terraform_block(block, Header0(block, p, "terraform").open,
             First(block, Header0(block, p, "terraform").open + 1, {"}"}))
    ELSE block

format_block(block) == format_block_at(block, FirstNot(block, 1, Spaces))

\* lines 49-78: re.split(r'(\n\s*\n)', code) with the next separator at
\* sep, every piece formatted, the pieces joined
RECURSIVE format_blocks(_, _)
format_blocks_at(text, from, sep) ==
    IF sep > Len(text) THEN format_block(SubSeq(text, from, Len(text)))
    ELSE format_block(SubSeq(text, from, sep - 1))
         \o format_block(SubSeq(text, sep, SeparatorEnd(text, sep)))
         \o format_blocks(text, SeparatorEnd(text, sep) + 1)

format_blocks(text, from) ==
    format_blocks_at(text, from, NextSeparator(text, from))

\* re.sub(r'\n{3,}', '\n\n', formatted_code), line 81
RECURSIVE squeeze_newlines(_, _)
squeeze_newlines(text, from) ==
    IF from > Len(text) THEN <<>>
    ELSE IF text[from] # "\n"
    THEN <<text[from]>> \o squeeze_newlines(text, from + 1)
    ELSE IF FirstNot(text, from, {"\n"}) - from >= 3
    THEN <<"\n", "\n">>
         \o squeeze_newlines(text, FirstNot(text, from, {"\n"}))
    ELSE SubSeq(text, from, FirstNot(text, from, {"\n"}) - 1)
         \o squeeze_newlines(text, FirstNot(text, from, {"\n"}))

\* _custom_format, lines 46-83
custom_format(text) == squeeze_newlines(format_blocks(text, 1), 1)

(***************************************************************************)
(* AIService._clean_terraform_code                                         *)
(***************************************************************************)
\* the fence marker, three backquotes, is one token of a text
Fence == "FENCE"

\* lines 183-192: the text after the opening fence, with first_line_end
\* the index of the first newline of code
skip_opening(code, first_line_end) ==
    IF first_line_end <= Len(code)
    THEN IF /\ Strip(SubSeq(code, 1, first_line_end - 1))[1] = Fence
            /\ Len(Strip(SubSeq(code, 1, first_line_end - 1))) > 1
         THEN SubSeq(code, first_line_end + 1, Len(code))
         ELSE Tail(code)
    ELSE Tail(code)

\* lines 194-196
skip_closing(code) ==
    IF code # <<>> /\ code[Len(code)] = Fence
    THEN SubSeq(code, 1, Len(code) - 1)
    ELSE code

\* _clean_terraform_code, lines 178-199
clean_terraform_code(code) ==
    IF code # <<>> /\ code[1] = Fence /\ code[Len(code)] = Fence
    THEN Strip(skip_closing(skip_opening(code, First(code, 1, {"\n"}))))
    ELSE Strip(code)

(***************************************************************************)
(* ScannerService: the scan of a document with the external tool           *)
(***************************************************************************)
\* how a call ends
Returned(value) == [value |-> value, exit |-> "returned", error |-> ""]
Raised(error) == [value |-> <<>>, exit |-> "raised", error |-> error]

\* the values json.loads returns, each with its Python type
JNull == [t |-> "null"]
JNumber == [t |-> "number"]
JString(s) == [s |-> s, t |-> "string"]
JArray(a) == [a |-> a, t |-> "array"]
JObject(m) == [m |-> m, t |-> "object"]

\* the Python value of a JSON value of the model: the text of a string
PyValue(v) == IF v.t = "string" THEN v.s ELSE v

\* bool(v)
Truthy(v) ==
    CASE v.t = "null" -> FALSE
      [] v.t = "string" -> v.s # <<>>
      [] v.t = "array" -> v.a # <<>>
      [] v.t = "object" -> DOMAIN v.m # {}
      [] OTHER -> TRUE

\* check.get(key, default)
DictGet(check, key, default) ==
    IF key \in DOMAIN check THEN PyValue(check[key]) ELSE default

\* the families whose name a check id of the model contains
IdMentions(check_id) ==
    CASE check_id = "CKV_AWS_S3_19" -> {"S3"}
      [] check_id = "CKV_AWS_EC2_79" -> {"EC2"}
      [] check_id = "CKV_AWS_VPC_11" -> {"VPC"}
      [] OTHER -> {}

GeneralGuidance ==
    "Review the resource configuration and implement the security best practice recommended by the check."

\* lines 121-129
s3_guidance(check_name) ==
    IF Mentions(check_name, "encryption")
    THEN "Enable default encryption for the S3 bucket using AES-256 or KMS."
    ELSE IF Mentions(check_name, "public")
    THEN "Block all public access to the S3 bucket unless specifically required."
    ELSE IF Mentions(check_name, "versioning")
    THEN "Enable versioning on the S3 bucket to protect against accidental deletions."
    ELSE IF Mentions(check_name, "logging")
    THEN "Enable access logging for the S3 bucket to track all requests."
    ELSE GeneralGuidance

\* lines 132-138
ec2_guidance(check_name) ==
    IF InSeq(<<"security", " ", "group">>, Lower(check_name))
    THEN "Restrict security group rules to specific IP ranges and necessary ports only."
    ELSE IF \/ Mentions(check_name, "imdsv2")
            \/ InSeq(<<"metadata", " ", "service">>, Lower(check_name))
    THEN "Require IMDSv2 and set hop limit to 1 to prevent SSRF attacks."
    ELSE IF Mentions(check_name, "encryption")
    THEN "Enable EBS volume encryption to protect data at rest."
    ELSE GeneralGuidance

\* lines 141-147
vpc_guidance(check_name) ==
    IF InSeq(<<"flow", " ", "logs">>, Lower(check_name))
    THEN "Enable VPC flow logs for network monitoring and security analysis."
    ELSE IF Mentions(check_name, "subnet")
    THEN "Use private subnets for resources that don't need direct internet access."
    ELSE IF Mentions(check_name, "nacl") \/ Mentions(check_name, "acl")
    THEN "Implement restrictive network ACLs to control traffic at the subnet level."
    ELSE GeneralGuidance

\* lines 117-150: the guidance for a check id and a check name
guidance_for(check_id, check_name) ==
    IF "S3" \in IdMentions(check_id) THEN s3_guidance(check_name)
    ELSE IF "EC2" \in IdMentions(check_id) THEN ec2_guidance(check_name)
    ELSE IF "VPC" \in IdMentions(check_id) THEN vpc_guidance(check_name)
    ELSE GeneralGuidance

\* _generate_remediation_guidance, lines 110-150
generate_remediation_guidance(check) ==
    IF "guideline" \in DOMAIN check /\ Truthy(check["guideline"])
    THEN PyValue(check["guideline"])
    ELSE guidance_for(DictGet(check, "check_id", ""),
                      DictGet(check, "check_name", <<>>))

\* the finding built from one failed check, lines 101-106
security_issue(check) ==
    [resource |-> DictGet(check, "resource",
                          <<"Unknown", " ", "resource">>),
     description |-> DictGet(check, "check_name",
                             <<"Unknown", " ", "issue">>),
     severity |-> DictGet(check, "severity", "UNKNOWN"),
     remediation |-> generate_remediation_guidance(check)]

\* "results" not in scan_data, line 93: "yes", "no", or the error raised
HasResults(scan_data) ==
    CASE scan_data.t = "object" ->
            IF "results" \in DOMAIN scan_data.m THEN "yes" ELSE "no"
      [] scan_data.t = "array" ->
            IF \E i \in DOMAIN scan_data.a :
                   scan_data.a[i] = JString(<<"results">>)
            THEN "yes" ELSE "no"
      [] scan_data.t = "string" ->
            IF \E i \in DOMAIN scan_data.s : scan_data.s[i] = "results"
            THEN "yes" ELSE "no"
      [] OTHER -> "TypeError"

\* the loop over failed_checks, lines 99-106
issues_of(failed_checks) ==
    CASE failed_checks.t = "array" ->
            IF \E i \in DOMAIN failed_checks.a :
                   failed_checks.a[i].t # "object"
            THEN Raised("AttributeError")
            ELSE Returned([i \in DOMAIN failed_checks.a |->
                              security_issue(failed_checks.a[i].m)])
      [] failed_checks.t = "string" ->
            IF failed_checks.s = <<>> THEN Returned(<<>>)
            ELSE Raised("AttributeError")
      [] failed_checks.t = "object" ->
            IF DOMAIN failed_checks.m = {} THEN Returned(<<>>)
            ELSE Raised("AttributeError")
      [] OTHER -> Raised("TypeError")

\* scan_data["results"].get("failed_checks", []), line 97
failed_checks_of(results) ==
    IF results.t # "object" THEN Raised("AttributeError")
    ELSE issues_of(IF "failed_checks" \in DOMAIN results.m
                   THEN results.m["failed_checks"]
                   ELSE JArray(<<>>))

\* _process_scan_results, lines 89-108
process_scan_results(scan_data) ==
    IF HasResults(scan_data) = "TypeError" THEN Raised("TypeError")
    ELSE IF HasResults(scan_data) = "no" THEN Returned(<<>>)
    ELSE IF scan_data.t # "object" THEN Raised("TypeError")
    ELSE failed_checks_of(scan_data.m["results"])

\* json.loads(result.stdout), line 66
json_loads(stdout) ==
    IF stdout.text = "json" THEN Returned(stdout.value)
    ELSE Raised("JSONDecodeError")

\* lines 64-80: what scan_terraform makes of the finished tool run
scan_output(run) ==
    IF run.stdout.text # "empty" /\ json_loads(run.stdout).exit = "returned"
    THEN process_scan_results(json_loads(run.stdout).value)
    ELSE Returned(<<>>)

\* lines 50-84: the tool is run once; a SubprocessError gives no findings,
\* any other error leaves the function
scan_run(tool) ==
    CASE tool.kind = "exited" -> scan_output(tool)
      [] tool.kind = "SubprocessError" -> Returned(<<>>)
      [] OTHER -> Raised(tool.kind)

\* a call of a service, what it met and how it ended: the temporary file it
\* created (0 for none), whether it removed the file, the number of
\* processes it started
Call(op, env, file, removed, runs, result) ==
    [value |-> result.value, exit |-> result.exit, error |-> result.error,
     op |-> op, env |-> env, file |-> file, removed |-> removed,
     runs |-> runs]

\* scan_terraform, lines 43-87, with the temporary file called file: the
\* file is written before the try statement whose finally removes it
scan_terraform(env, file) ==
    IF env.write # "ok"
    THEN Call("scan_terraform", env, file, FALSE, 0, Raised(env.write))
    ELSE Call("scan_terraform", env, file, TRUE, 1, scan_run(env.tool))

\* _validate_checkov_installation, lines 23-41, called by __init__
validate_checkov_installation(env) ==
    IF env.version = "ok" THEN Returned(<<>>)
    ELSE IF env.version \notin {"CalledProcessError", "FileNotFoundError"}
    THEN Raised(env.version)
    ELSE IF env.pip = "ok" THEN Returned(<<>>)
    ELSE IF env.pip = "CalledProcessError" THEN Raised("RuntimeError")
    ELSE Raised(env.pip)

\* the processes it starts: checkov --version, then pip install checkov
\* when the first one fails as line 31 says
installation_runs(env) ==
    IF env.version \in {"CalledProcessError", "FileNotFoundError"}
    THEN 2 ELSE 1

\* ScannerService(), lines 14-21
new_scanner_service(env) ==
    Call("ScannerService", env, 0, TRUE, installation_runs(env),
         validate_checkov_installation(env))

(***************************************************************************)
(* FormatterService.format_terraform                                       *)
(***************************************************************************)
\* lines 30-41: terraform fmt is run on the file; the text it leaves there
\* is returned, _custom_format(terraform_code) when the tool is missing
\* or fails; the value says which text it is
format_run(tool) ==
    CASE tool.kind = "exited" -> Returned("formatted_code")
      [] tool.kind \in {"CalledProcessError", "FileNotFoundError"} ->
            Returned("custom_format")
      [] OTHER -> Raised(tool.kind)

\* lines 42-44: any error gives the original text back
format_guard(result) ==
    IF result.exit = "raised" THEN Returned("terraform_code") ELSE result

\* format_terraform, lines 22-44, with the temporary file called file
format_terraform(env, file) ==
    IF env.write # "ok"
    THEN Call("format_terraform", env, file, FALSE, 0,
              format_guard(Raised(env.write)))
    ELSE Call("format_terraform", env, file, TRUE, 1,
              format_guard(format_run(env.tool)))

(***************************************************************************)
(* The Terraform service at work: a text is given, then process_terraform  *)
(* (section insertion, then tag injection) and the Tag Injector on its own *)
(* are applied to the text the service holds.                              *)
(***************************************************************************)
TfItems ==
    <<BucketBlock, TaggedBlock, NestedBlock, NestedTaggedBlock, OtherBlock,
      VariableComment, OutputComment, SettingsBlock, WideSettingsBlock,
      ProviderBlock, VariableDecl, OutputDecl>>

\* the texts made of at most n of the given items
RECURSIVE Docs(_, _)
Docs(items, n) ==
    IF n = 0 THEN {<<>>}
    ELSE Docs(items, n - 1)
         \cup {d \o items[i] : d \in Docs(items, n - 1), i \in DOMAIN items}

InputDocs ==
    Docs(TfItems, MaxItems) \cup {Strip(d) : d \in Docs(TfItems, MaxItems)}

IdleTf ==
    /\ service_type = "s3"
    /\ terraform_code = <<>>
    /\ tf_pc = "ready"
    /\ tf_ops = <<>>
    /\ tf_texts = <<>>

IdleRem ==
    /\ remediated_code = <<>>
    /\ issues = <<>>
    /\ rem_texts = <<>>

IdleScore ==
    /\ scan_results = <<>>
    /\ security_score = 0
    /\ prev_score = 0

IdleFmt ==
    /\ extracted = <<>>
    /\ module_files = <<>>
    /\ fmt_exit = "none"

NoCall == [op |-> "none"]

IdleScan ==
    /\ tmp_dir = {}
    /\ last_call = NoCall

IdlePipe ==
    /\ tmp_content = <<>>
    /\ pipeline = <<>>

IdleExt == IdleFmt /\ IdleScan /\ IdlePipe

TfInit ==
    /\ \E d \in InputDocs, svc \in Families :
          /\ service_type = svc
          /\ terraform_code = d
          /\ tf_texts = <<d>>
    /\ tf_pc = "ready"
    /\ tf_ops = <<>>
    /\ IdleRem
    /\ IdleScore
    /\ IdleExt

TfStep(op, text) ==
    /\ terraform_code' = text
    /\ tf_ops' = Append(tf_ops, op)
    /\ tf_texts' = Append(tf_texts, text)
    /\ UNCHANGED <<service_type, remVars, scoreVars, extVars>>

\* process_terraform, lines 44-164
ProcessSections ==
    /\ tf_pc = "ready"
    /\ Len(tf_ops) + 2 <= MaxSteps
    /\ tf_pc' = "tagging"
    /\ TfStep("sections", InsertSections(terraform_code, service_type))

\* process_terraform, lines 166-169
ProcessTags ==
    /\ tf_pc = "tagging"
    /\ tf_pc' = "ready"
    /\ TfStep("process_tags",
              add_tags_to_resources(terraform_code, service_type))

\* _add_tags_to_resources called on its own
AddTagsToResources ==
    /\ tf_pc = "ready"
    /\ Len(tf_ops) < MaxSteps
    /\ tf_pc' = "ready"
    /\ TfStep("tags", add_tags_to_resources(terraform_code, service_type))

TfNext == ProcessSections \/ ProcessTags \/ AddTagsToResources

SpecTerraform == TfInit /\ [][TfNext]_vars

(***************************************************************************)
(* The documentation step at work: a text and a family are given and       *)
(* add_documentation is applied to them.                                   *)
(***************************************************************************)
DocItems ==
    <<BucketBlock, EncryptionConfig, InstanceBlock, InstanceMonitored,
      InstanceMonitoredToo, InstanceNested, InstanceMetadata, SecurityGroup,
      AutoscalingGroup, VpcBlock, SubnetBlock>>

DocInit ==
    /\ \E d \in Docs(DocItems, MaxItems), svc \in Families :
          /\ service_type = svc
          /\ terraform_code = d
          /\ tf_texts = <<d>>
    /\ tf_pc = "ready"
    /\ tf_ops = <<>>
    /\ IdleRem
    /\ IdleScore
    /\ IdleExt

\* add_documentation, lines 211-237
AddDocumentation ==
    /\ tf_ops = <<>>
    /\ TfStep("add_documentation",
              add_documentation(terraform_code, service_type))
    /\ UNCHANGED tf_pc

DocNext == AddDocumentation

SpecDocument == DocInit /\ [][DocNext]_vars

(***************************************************************************)
(* The remediation engine at work: a text and a finding list are given,    *)
(* then auto_remediate is applied, again and again, with the same list.    *)
(***************************************************************************)
RemItems ==
    <<InstanceBlock, InstanceNested, InstanceTight, InstanceRootDevice,
      VpcBlock, BucketBlock, EncryptionNote>>

RemDocs == Docs(RemItems, MaxItems)

\* a finding as _process_scan_results builds it, lines 101-106
Issue(resource, description) ==
    [resource |-> resource, description |-> description, severity |-> "HIGH"]

RemIssues ==
    {Issue(<<"aws_s3_bucket", ".", "main">>, d) :
        d \in {EncryptionIssue, PublicAccessIssue, VersioningIssue,
               LoggingIssue}}
    \cup {Issue(<<"aws_instance", ".", "web">>, d) :
        d \in {MetadataIssue, EbsIssue, MonitoringIssue,
               MetadataMonitoringIssue}}
    \cup {Issue(<<"aws_vpc", ".", "main">>, d) :
        d \in {FlowLogIssue, DnsIssue}}
    \cup {Issue(<<"aws_s3_bucket", ".", "b">>, EncryptionIssue),
          Issue(<<"aws_iam_role", ".", "main">>, EncryptionIssue)}

\* the finding lists of at most n findings
RECURSIVE IssueLists(_)
IssueLists(n) ==
    IF n = 0 THEN {<<>>}
    ELSE IssueLists(n - 1)
         \cup {Append(l, f) : l \in IssueLists(n - 1), f \in RemIssues}

RemInit ==
    /\ \E d \in RemDocs, results \in IssueLists(MaxIssues) :
          /\ remediated_code = d
          /\ issues = results
          /\ rem_texts = <<d>>
    /\ IdleTf
    /\ IdleScore
    /\ IdleExt

\* auto_remediate, lines 181-215
AutoRemediate ==
    /\ Len(rem_texts) <= MaxRuns
    /\ remediated_code' = auto_remediate(remediated_code, issues)
    /\ rem_texts' = Append(rem_texts, remediated_code')
    /\ UNCHANGED <<issues, tfVars, scoreVars, extVars>>

RemNext == AutoRemediate

SpecRemediate == RemInit /\ [][RemNext]_vars


(***************************************************************************)
(* The remediation engine given finding lists in which some findings do    *)
(* not name a resource.                                                    *)
(***************************************************************************)
SkipItems == <<BucketBlock, InstanceBlock, VpcBlock>>

\* findings on the three families that the rules act upon
ParsedIssues ==
    {Issue(<<"aws_s3_bucket", ".", "main">>, VersioningIssue),
     Issue(<<"aws_instance", ".", "web">>, MonitoringIssue),
     Issue(<<"aws_vpc", ".", "main">>, DnsIssue)}

\* resource strings that are not <type>.<name>: no dot, three parts, a
\* hyphen, a space in front, a newline at the end, the empty string
UnparsedResources ==
    {<<"aws_s3_bucket">>,
     <<"aws_s3_bucket", ".", "main", ".", "id">>,
     <<"aws_s3_bucket", ".", "my-bucket">>,
     <<" ", "aws_s3_bucket", ".", "main">>,
     <<"aws_s3_bucket", ".", "main", "\n">>,
     <<>>}

UnparsedIssues ==
    {Issue(r, EncryptionIssue) : r \in UnparsedResources}
    \cup {Issue(<<"aws_s3_bucket", ".", "main">>, <<>>),
          [description |-> EncryptionIssue]}

SkipIssues == ParsedIssues \cup UnparsedIssues

\* the lists of at most n findings drawn from a set
RECURSIVE ListsOf(_, _)
ListsOf(S, n) ==
    IF n = 0 THEN {<<>>}
    ELSE ListsOf(S, n - 1)
         \cup {Append(l, f) : l \in ListsOf(S, n - 1), f \in S}

SkipInit ==
    /\ \E d \in Docs(SkipItems, MaxItems),
          results \in ListsOf(SkipIssues, MaxIssues) :
          /\ remediated_code = d
          /\ issues = results
          /\ rem_texts = <<d>>
    /\ IdleTf
    /\ IdleScore
    /\ IdleExt

SpecSkip == SkipInit /\ [][RemNext]_vars


(***************************************************************************)
(* The remediation engine given documents that mention the names the       *)
(* logging and flow-log rules look for.                                    *)
(***************************************************************************)
ReferItems == <<BucketBlock, VpcBlock, LoggingNote, RoleBlock>>

ReferIssues ==
    {Issue(<<"aws_s3_bucket", ".", "main">>, LoggingIssue),
     Issue(<<"aws_s3_bucket", ".", "main">>, VersioningIssue),
     Issue(<<"aws_vpc", ".", "main">>, FlowLogIssue)}

ReferInit ==
    /\ \E d \in Docs(ReferItems, MaxItems),
          results \in ListsOf(ReferIssues, MaxIssues) :
          /\ remediated_code = d
          /\ issues = results
          /\ rem_texts = <<d>>
    /\ IdleTf
    /\ IdleScore
    /\ IdleExt

SpecRefer == ReferInit /\ [][RemNext]_vars
(***************************************************************************)
(* Findings handed to the scoring engine.                                  *)
(***************************************************************************)
Severities == {"HIGH", "MEDIUM", "LOW", "INFO", "UNKNOWN"}

ScoreFinding(sev) == [resource |-> "aws_s3_bucket.main", severity |-> sev]
NoSeverityFinding == [resource |-> "aws_s3_bucket.main"]

OtherFindings ==
    {ScoreFinding(s) : s \in Severities \ {"HIGH"}} \cup {NoSeverityFinding}

NumOther(results) ==
    Cardinality({i \in DOMAIN results : results[i] # ScoreFinding("HIGH")})

ScoreInit ==
    /\ scan_results = <<>>
    /\ security_score = calculate_security_score(<<>>)
    /\ prev_score = calculate_security_score(<<>>)
    /\ IdleTf
    /\ IdleRem
    /\ IdleExt

\* a scan reports one more finding and the list is scored again
ScoreWith(f) ==
    /\ Len(scan_results) < MaxFindings
    /\ scan_results' = Append(scan_results, f)
    /\ prev_score' = security_score
    /\ security_score' = calculate_security_score(scan_results')
    /\ UNCHANGED <<tfVars, remVars, extVars>>

ScoreHighFinding == ScoreWith(ScoreFinding("HIGH"))

ScoreOtherFinding ==
    /\ NumOther(scan_results) < MaxOther
    /\ \E f \in OtherFindings : ScoreWith(f)

ScoreNext == ScoreHighFinding \/ ScoreOtherFinding

SpecScore == ScoreInit /\ [][ScoreNext]_vars

(***************************************************************************)
(* Properties of the scoring engine.                                       *)
(***************************************************************************)
\* C8: the score of every finding list lies in [0, 100], and the score of
\* the empty list is exactly 100.0.
ScoreInRange ==
    /\ security_score \in 0..(10 * BaseScore)
    /\ scan_results = <<>> => security_score = 1000

\* nine HIGH findings: the raw score is negative and the clamp acts
ScoreClampedWitness ==
    /\ Len(scan_results) = 9
    /\ NumOther(scan_results) = 0
    /\ security_score = 0

\* C9: appending a HIGH finding to a list never increases its score.
HighNeverIncreases ==
    (scan_results # <<>>
        /\ scan_results[Len(scan_results)] = ScoreFinding("HIGH"))
    => security_score <= prev_score

\* a HIGH finding appended to a list whose score was already clamped at 0
HighAtZeroWitness ==
    /\ Len(scan_results) = 10
    /\ scan_results[10] = ScoreFinding("HIGH")
    /\ prev_score = 0
    /\ security_score = 0

\* the number of findings of one severity; a finding without a severity
\* key reads as LOW
CountOf(results, sev) ==
    Cardinality({i \in DOMAIN results : SeverityOf(results[i]) = sev})

\* clamp(100 - 20 * (1.0 nH + 0.5 nM + 0.2 nL + 0.0 nI) / 1.7, 0, 100)
\* rounded to one decimal, in tenths: the raw value is num / 17 tenths
ClaimedScore(nH, nM, nL, nI) ==
    LET num == 17000 - 200 * (10 * nH + 5 * nM + 2 * nL + 0 * nI)
        clamped == IF num < 0 THEN 0
                   ELSE IF num > 17000 THEN 17000 ELSE num
    IN  (2 * clamped + 17) \div 34

AsLow(results) ==
    [i \in DOMAIN results |->
        IF SeverityOf(results[i]) \in DOMAIN scan_severity_weights
        THEN results[i]
        ELSE ScoreFinding("LOW")]

\* C21: a finding whose severity is not HIGH, MEDIUM, LOW or INFO lowers
\* the score exactly as a LOW finding does.
UnknownCountsAsLow ==
    security_score = calculate_security_score(AsLow(scan_results))
(***************************************************************************)
(* The formatter at work: a text is given and generate_module_structure    *)
(* takes it apart.                                                         *)
(***************************************************************************)
FmtItems ==
    TfItems \o <<VariableNested, UnclosedBlock, StrayBrace>>

FmtInit ==
    /\ \E d \in Docs(FmtItems, MaxItems), svc \in Families :
          /\ service_type = svc
          /\ terraform_code = d
          /\ tf_texts = <<d>>
    /\ tf_pc = "ready"
    /\ tf_ops = <<>>
    /\ IdleFmt
    /\ IdleScan
    /\ IdlePipe
    /\ IdleRem
    /\ IdleScore

\* generate_module_structure, lines 239-278
GenerateModuleStructure ==
    /\ fmt_exit = "none"
    /\ extracted' = extract_blocks(terraform_code)
    /\ module_files' = generate_module_structure(terraform_code, service_type)
    /\ fmt_exit' = "returned"
    /\ UNCHANGED <<tfVars, remVars, scoreVars, scanVars, pipeVars>>

FmtNext == GenerateModuleStructure

SpecFormatter == FmtInit /\ [][FmtNext]_vars

(***************************************************************************)
(* The services that run an external tool at work: what the tool and the   *)
(* file system do is given with each call.                                 *)
(***************************************************************************)
\* tf_file.write(terraform_code.encode()): done, the text cannot be
\* encoded, or the file cannot be written
WriteOutcomes == {"ok", "UnicodeEncodeError", "OSError"}

\* failed checks as the tool reports them
CheckEncryption ==
    [resource |-> JString(<<"aws_s3_bucket", ".", "main">>),
     severity |-> JString("HIGH"),
     check_id |-> JString("CKV_AWS_19"),
     check_name |-> JString(EncryptionIssue)]

CheckFamilyId ==
    [resource |-> JString(<<"aws_s3_bucket", ".", "main">>),
     severity |-> JString("MEDIUM"),
     check_id |-> JString("CKV_AWS_S3_19"),
     check_name |-> JString(VersioningIssue),
     guideline |-> JNull]

CheckGuided ==
    [resource |-> JString(<<"aws_vpc", ".", "main">>),
     check_id |-> JString("CKV_AWS_VPC_11"),
     check_name |-> JString(FlowLogIssue),
     guideline |-> JString(<<"See", " ", "the", " ", "guide">>)]

CheckBare == [check_id |-> JString("CKV_AWS_EC2_79")]

Checks == <<CheckEncryption, CheckFamilyId, CheckGuided, CheckBare>>

\* the lists of at most n failed checks
RECURSIVE CheckLists(_)
CheckLists(n) ==
    IF n = 0 THEN {<<>>}
    ELSE CheckLists(n - 1)
         \cup {Append(l, JObject(Checks[i])) :
                  l \in CheckLists(n - 1), i \in DOMAIN Checks}

NoKeys == [k \in {} |-> JNull]

\* the report of the tool in the shape the scanner expects
WellFormed(failed_checks) ==
    JObject([results |-> JObject([failed_checks |-> JArray(failed_checks)])])

\* JSON values of another shape
OtherShapes ==
    <<JObject(NoKeys),
      JObject([summary |-> JNumber]),
      JArray(<<>>),
      JArray(<<WellFormed(<<JObject(CheckEncryption)>>)>>),
      JArray(<<JString(<<"results">>)>>),
      JNumber,
      JNull,
      JString(<<"results">>),
      JString(<<"oops">>),
      JObject([results |-> JNull]),
      JObject([results |-> JArray(<<>>)]),
      JObject([results |-> JObject(NoKeys)]),
      JObject([results |-> JObject([failed_checks |-> JNull])]),
      JObject([results |-> JObject([failed_checks |-> JString(<<>>)])]),
      JObject([results |-> JObject([failed_checks |->
                  JArray(<<JString(<<"CKV_AWS_19">>)>>)])]),
      JObject([results |-> JObject([failed_checks |->
                  JArray(<<JObject(CheckEncryption), JNull>>)])])>>

\* what the tool may write to its standard output
Stdouts ==
    {[text |-> "empty"], [text |-> "not json"]}
    \cup {[text |-> "json", value |-> WellFormed(l)] :
             l \in CheckLists(MaxChecks)}
    \cup {[text |-> "json", value |-> OtherShapes[i]] :
             i \in DOMAIN OtherShapes}

Stderrs ==
    {"", "No resources were detected", "No checks were failed", "Traceback"}

\* how subprocess.run ends for the scanner: the tool ran and exited, or
\* the call raised
ScanRuns ==
    {[kind |-> k] :
        k \in {"FileNotFoundError", "PermissionError", "SubprocessError"}}
    \cup [kind : {"exited"}, returncode : {0, 1},
          stdout : Stdouts, stderr : Stderrs]

\* how subprocess.run(..., check=True) ends
CheckedRuns ==
    {"ok", "CalledProcessError", "FileNotFoundError", "PermissionError"}

FormatRuns ==
    {[kind |-> IF k = "ok" THEN "exited" ELSE k] : k \in CheckedRuns}

StaleName ==
    CHOOSE n \in 1..(Cardinality(tmp_dir) + 1) : TRUE

\* the name mkstemp picks: one that no file has
FreshName ==
    CHOOSE n \in 1..(Cardinality(tmp_dir) + 1) : n \notin tmp_dir

ScanInit ==
    /\ IdleScan
    /\ IdlePipe
    /\ IdleFmt
    /\ IdleTf
    /\ IdleRem
    /\ IdleScore

\* the call has ended: its file is on disk unless the call removed it
EndCall(call) ==
    /\ last_call' = call
    /\ tmp_dir' = IF call.removed THEN tmp_dir ELSE tmp_dir \cup {call.file}
    /\ UNCHANGED <<tfVars, remVars, scoreVars, fmtVars, pipeVars>>

\* ScannerService(), lines 14-21
NewScannerService ==
    \E version \in CheckedRuns, pip \in CheckedRuns :
        EndCall(new_scanner_service([version |-> version, pip |-> pip]))

\* scan_terraform, lines 43-87
ScanTerraform ==
    /\ Cardinality(tmp_dir) < MaxTmpFiles
    /\ \E write \in WriteOutcomes, tool \in ScanRuns :
          EndCall(scan_terraform([tool |-> tool, write |-> write],
                                 FreshName))

\* format_terraform, lines 22-44
FormatTerraform ==
    /\ Cardinality(tmp_dir) < MaxTmpFiles
    /\ \E write \in WriteOutcomes, tool \in FormatRuns :
          EndCall(format_terraform([tool |-> tool, write |-> write],
                                   FreshName))

ScanNext == NewScannerService \/ ScanTerraform \/ FormatTerraform

SpecScan == ScanInit /\ [][ScanNext]_vars


(***************************************************************************)
(* The formatter at work: a text is given and format_terraform is called   *)
(* on it, with terraform fmt running or not.                               *)
(***************************************************************************)
\* input text: resource "aws_s3_bucket" "main" { / bucket = "x" / }
UnindentedBlock ==
       <<"resource", " ", "\"", "aws_s3_bucket", "\"", " ", "\"", "main",
        "\"", " ", "{", "\n">>
    \o <<"bucket", " ", "=", " ", "\"", "x", "\"", "\n">>
    \o <<"}", "\n">>

\* input text: terraform { /   required_providers { /     aws = { /       source = "x" /     } /   } / }
NestedSettings ==
       <<"terraform", " ", "{", "\n">>
    \o <<" ", " ", "required_providers", " ", "{", "\n">>
    \o <<" ", " ", " ", " ", "aws", " ", "=", " ", "{", "\n">>
    \o <<" ", " ", " ", " ", " ", " ", "source", " ", "=", " ", "\"", "x",
        "\"", "\n">>
    \o <<" ", " ", " ", " ", "}", "\n">>
    \o <<" ", " ", "}", "\n">>
    \o <<"}", "\n">>

FormatItems ==
    {<<>>, BucketBlock, UnindentedBlock, TaggedBlock, SettingsBlock,
     NestedSettings, ProviderBlock, VariableDecl, VariableNested, OutputDecl}

\* two items, one after the other or with an empty line between them
FormatDocs ==
    {a \o sep \o b :
        a \in FormatItems, b \in FormatItems, sep \in {<<>>, <<"\n">>}}

\* what terraform fmt may leave in the file it was given
FmtOutputs(text) == {text, Strip(text) \o <<"\n">>}

FormatInit ==
    /\ \E d \in FormatDocs :
          /\ terraform_code = d
          /\ tf_texts = <<d>>
    /\ service_type = "s3"
    /\ tf_pc = "ready"
    /\ tf_ops = <<>>
    /\ IdleRem
    /\ IdleScore
    /\ IdleExt

\* the text format_terraform returns, lines 34, 38 and 44
formatted_text(which, text, formatted_code) ==
    CASE which = "custom_format" -> custom_format(text)
      [] which = "terraform_code" -> text
      [] OTHER -> formatted_code

\* the call has ended and returned its text
EndFormat(call, formatted_code) ==
    /\ last_call' = call
    /\ tmp_dir' = IF call.removed THEN tmp_dir ELSE tmp_dir \cup {call.file}
    /\ terraform_code'
         = formatted_text(call.value, terraform_code, formatted_code)
    /\ tf_ops' = Append(tf_ops, "format_terraform")
    /\ tf_texts' = Append(tf_texts, terraform_code')
    /\ UNCHANGED <<service_type, tf_pc, remVars, scoreVars, fmtVars,
                   pipeVars>>

\* format_terraform, lines 22-44
FormatDocument ==
    /\ tf_ops = <<>>
    /\ \E write \in WriteOutcomes, tool \in FormatRuns,
          formatted_code \in FmtOutputs(terraform_code) :
          EndFormat(format_terraform([tool |-> tool, write |-> write],
                                     FreshName),
                    formatted_code)

FormatNext == FormatDocument

SpecFormat == FormatInit /\ [][FormatNext]_vars
(***************************************************************************)
(* The pipeline of generate_template serving concurrent requests: every    *)
(* request has its own services and local variables, the temporary files   *)
(* are in the one file system.  A step is one statement of the handler,    *)
(* and inside scan_terraform one access to the temporary file.             *)
(***************************************************************************)
Requests == {1, 2}

\* what the requests ask for and what the AI service answers
PipelineInputs ==
    {[service_type |-> "s3", terraform_code |-> BucketBlock],
     [service_type |-> "ec2", terraform_code |-> InstanceMonitored],
     [service_type |-> "vpc", terraform_code |-> VpcBlock]}

\* text has a resource block of the type
HasResource(text, type) ==
    \E p \in DOMAIN text : HeaderOfType(text, p, type)

\* the failed checks the tool reports for a text
FailedChecks(text) ==
    (IF HasResource(text, "aws_s3_bucket")
     THEN <<JObject(CheckEncryption), JObject(CheckFamilyId)>> ELSE <<>>)
    \o (IF HasResource(text, "aws_instance")
        THEN <<JObject(CheckBare)>> ELSE <<>>)
    \o (IF HasResource(text, "aws_vpc")
        THEN <<JObject(CheckGuided)>> ELSE <<>>)

\* subprocess.run(["checkov", "-f", path, ...]), lines 52-61, on a file
\* with the given text: the report depends on the text alone
checkov(text) ==
    [kind |-> "exited",
     stdout |-> [text |-> "json", value |-> WellFormed(FailedChecks(text))],
     returncode |-> IF FailedChecks(text) = <<>> THEN 0 ELSE 1,
     stderr |-> ""]

\* the local variables of generate_template before its first statement
NewRequest ==
    [service_type |-> "", terraform_code |-> <<>>, scan_results |-> <<>>,
     security_score |-> 0, pc |-> "start", processed_code |-> <<>>,
     tf_file_path |-> 0, documented_code |-> <<>>, response |-> <<>>]

\* the dictionary generate_template returns, lines 177-181
Response(documented, score, results) ==
    [terraform_code |-> documented,
     security_score |-> score,
     security_recommendations |-> results]

\* lines 169-181 for a request served alone, given its processed text
respond(processed_code, svc, results) ==
    Response(add_documentation(processed_code, svc),
             calculate_security_score(results), results)

\* lines 166-181 for a request served alone
serve(processed_code, svc) ==
    respond(processed_code, svc, scan_run(checkov(processed_code)).value)

\* generate_template, lines 137-181, for a request served alone whose AI
\* answer is code
generate_template(svc, code) == serve(process_terraform(code, svc), svc)

PipeInit ==
    /\ pipeline = [r \in Requests |-> NewRequest]
    /\ tmp_content = <<>>
    /\ IdleScan
    /\ IdleFmt
    /\ IdleTf
    /\ IdleRem
    /\ IdleScore

\* request r moves on with new values of some of its local variables
Step(r, request) ==
    /\ pipeline' = [pipeline EXCEPT ![r] = request]
    /\ UNCHANGED <<tfVars, remVars, scoreVars, fmtVars, last_call>>

\* templates.py lines 147-163: the request arrives and the AI service
\* answers
Generate(r) ==
    /\ pipeline[r].pc = "start"
    /\ \E input \in PipelineInputs :
          Step(r, [pipeline[r] EXCEPT
                      !.pc = "generated",
                      !.service_type = input.service_type,
                      !.terraform_code = input.terraform_code])
    /\ UNCHANGED <<tmp_dir, tmp_content>>

\* line 166 with the annotation moved in front of the scan
ProcessAnnotated(r) ==
    /\ pipeline[r].pc = "generated"
    /\ Step(r, [pipeline[r] EXCEPT
                   !.pc = "processed",
                   !.processed_code =
                       add_documentation(
                           process_terraform(pipeline[r].terraform_code,
                                             pipeline[r].service_type),
                           pipeline[r].service_type)])
    /\ UNCHANGED <<tmp_dir, tmp_content>>

\* templates.py line 166
Process(r) ==
    /\ pipeline[r].pc = "generated"
    /\ Step(r, [pipeline[r] EXCEPT
                   !.pc = "processed",
                   !.processed_code =
                       process_terraform(pipeline[r].terraform_code,
                                         pipeline[r].service_type)])
    /\ UNCHANGED <<tmp_dir, tmp_content>>

\* the file system after a file of the given name was created empty
Created(name) ==
    [n \in tmp_dir \cup {name} |-> IF n = name THEN <<>> ELSE tmp_content[n]]

\* scanner_service.py line 46: the temporary file is created
CreateTemp(r, name) ==
    /\ pipeline[r].pc = "processed"
    /\ tmp_dir' = tmp_dir \cup {name}
    /\ tmp_content' = Created(name)
    /\ Step(r, [pipeline[r] EXCEPT !.pc = "created", !.tf_file_path = name])

\* scanner_service.py lines 47-48: the text is written through the open
\* file
WriteTemp(r) ==
    /\ pipeline[r].pc = "created"
    /\ tmp_content' =
          IF pipeline[r].tf_file_path \in tmp_dir
          THEN [tmp_content EXCEPT ![pipeline[r].tf_file_path] =
                                       pipeline[r].processed_code]
          ELSE tmp_content
    /\ Step(r, [pipeline[r] EXCEPT !.pc = "written"])
    /\ UNCHANGED tmp_dir

\* the text the tool finds under a name: nothing when there is no file
FileText(name) == IF name \in tmp_dir THEN tmp_content[name] ELSE <<>>

\* scanner_service.py lines 50-84: the tool reads the file and the report
\* becomes the finding list
RunTool(r) ==
    /\ pipeline[r].pc = "written"
    /\ Step(r, [pipeline[r] EXCEPT
                   !.pc = "ran",
                   !.scan_results =
                       scan_run(checkov(FileText(pipeline[r].tf_file_path)))
                           .value])
    /\ UNCHANGED <<tmp_dir, tmp_content>>

\* the file system without the file of the given name
Removed(name) == [n \in tmp_dir \ {name} |-> tmp_content[n]]

\* scanner_service.py lines 85-87: os.unlink raises when the file is gone,
\* and the request fails
Unlink(r) ==
    /\ pipeline[r].pc = "ran"
    /\ tmp_dir' = tmp_dir \ {pipeline[r].tf_file_path}
    /\ tmp_content' = Removed(pipeline[r].tf_file_path)
    /\ Step(r, [pipeline[r] EXCEPT
                   !.pc = IF pipeline[r].tf_file_path \in tmp_dir
                          THEN "scanned" ELSE "failed"])

\* templates.py line 172
Score(r) ==
    /\ pipeline[r].pc = "scanned"
    /\ Step(r, [pipeline[r] EXCEPT
                   !.pc = "scored",
                   !.security_score =
                       calculate_security_score(pipeline[r].scan_results)])
    /\ UNCHANGED <<tmp_dir, tmp_content>>

\* templates.py line 175
Document(r) ==
    /\ pipeline[r].pc = "scored"
    /\ Step(r, [pipeline[r] EXCEPT
                   !.pc = "documented",
                   !.documented_code =
                       add_documentation(pipeline[r].processed_code,
                                         pipeline[r].service_type)])
    /\ UNCHANGED <<tmp_dir, tmp_content>>

\* templates.py lines 177-181
Return(r) ==
    /\ pipeline[r].pc = "documented"
    /\ Step(r, [pipeline[r] EXCEPT
                   !.pc = "done",
                   !.response = Response(pipeline[r].documented_code,
                                         pipeline[r].security_score,
                                         pipeline[r].scan_results)])
    /\ UNCHANGED <<tmp_dir, tmp_content>>

PipeNext ==
    \E r \in Requests :
        \/ Generate(r)
        \/ Process(r)
        \/ CreateTemp(r, FreshName)
        \/ WriteTemp(r)
        \/ RunTool(r)
        \/ Unlink(r)
        \/ Score(r)
        \/ Document(r)
        \/ Return(r)

SpecPipeline == PipeInit /\ [][PipeNext]_vars


(***************************************************************************)
(* The AI service at work: the provider's response is given and            *)
(* generate_terraform cleans it.                                           *)
(***************************************************************************)
\* the opening fence line, with and without a language tag
FenceLines == {<<Fence>>, <<Fence, "hcl">>, <<Fence, "terraform">>}

\* white space in front of the opening fence or after the closing fence
Margins == {<<>>, <<"\n">>, <<" ">>}

ResponseItems == {BucketBlock, Strip(InstanceBlock), VpcBlock, NestedSettings}

\* what the provider answers: the code alone, or the code in a fenced
\* block
Responses ==
    ResponseItems
    \cup {before \o open \o <<"\n">> \o content \o <<Fence>> \o after :
             before \in Margins, open \in FenceLines,
             content \in ResponseItems, after \in Margins}

CleanInit ==
    /\ \E response \in Responses :
          /\ terraform_code = response
          /\ tf_texts = <<response>>
    /\ service_type = "s3"
    /\ tf_pc = "ready"
    /\ tf_ops = <<>>
    /\ IdleRem
    /\ IdleScore
    /\ IdleExt

\* generate_terraform, lines 166-172: the text of the response is cleaned
GenerateTerraform ==
    /\ tf_ops = <<>>
    /\ TfStep("generate_terraform", clean_terraform_code(terraform_code))
    /\ UNCHANGED tf_pc

CleanNext == GenerateTerraform

SpecClean == CleanInit /\ [][CleanNext]_vars

(***************************************************************************)
(* The three text transformations at work: the terraform service          *)
(* processes or annotates an input, or the scanner remediates it.          *)
(***************************************************************************)
BalanceItems == <<NestedBlock, InstanceTight, BucketBlock, VpcBlock>>

BalanceIssues ==
    {Issue(<<"aws_instance", ".", "web">>, MetadataIssue),
     Issue(<<"aws_s3_bucket", ".", "main">>, LoggingIssue),
     Issue(<<"aws_vpc", ".", "main">>, FlowLogIssue)}

\* the terraform service is given the input
TerraformAtWork ==
    /\ \E d \in Docs(BalanceItems, MaxItems), svc \in Families :
          /\ service_type = svc
          /\ terraform_code = d
          /\ tf_texts = <<d>>
    /\ tf_pc = "ready"
    /\ tf_ops = <<>>
    /\ IdleRem

\* the scanner is given the input and a finding list, the terraform
\* service the empty text
ScannerAtWork ==
    /\ \E d \in Docs(BalanceItems, MaxItems),
          results \in ListsOf(BalanceIssues, MaxIssues) :
          /\ remediated_code = d
          /\ issues = results
          /\ rem_texts = <<d>>
    /\ service_type = "s3"
    /\ terraform_code = <<>>
    /\ tf_texts = <<<<>>>>
    /\ tf_pc = "idle"
    /\ tf_ops = <<>>

BalanceInit ==
    /\ TerraformAtWork \/ ScannerAtWork
    /\ IdleScore
    /\ IdleExt

BalanceNext ==
    \/ ProcessSections
    \/ ProcessTags
    \/ AddDocumentation
    \/ AutoRemediate

SpecBalance == BalanceInit /\ [][BalanceNext]_vars
(***************************************************************************)
(* Blocks as the specification defines them: a declaration header and the  *)
(* text up to the closing brace that brings the brace depth back to zero.  *)
(***************************************************************************)
\* the closing brace matching the opening brace at index open, 0 when the
\* depth never returns to zero
MatchingClose(text, open) ==
    LET depth(j) == Cardinality({k \in open..j : text[k] = "{"})
                    - Cardinality({k \in open..j : text[k] = "}"})
        ends == {j \in open..Len(text) : text[j] = "}" /\ depth(j) = 0}
    IN  IF ends = {} THEN 0 ELSE CHOOSE j \in ends : \A k \in ends : j <= k

\* the indices where a resource declaration starts
ResourceHeads(text) ==
    {p \in DOMAIN text : ResourceHeader(text, p).open # 0}

\* the k-th smallest element of a set of indices
Nth(S, k) == CHOOSE p \in S : Cardinality({q \in S : q < p}) = k - 1

\* the k-th resource block of text: header index, opening brace, matching
\* closing brace, type, and the index where the next resource starts
ResourceBlock(text, k) ==
    LET heads == ResourceHeads(text)
        p == Nth(heads, k)
        h == ResourceHeader(text, p)
    IN  [open |-> h.open, type |-> h.type,
         close |-> MatchingClose(text, h.open), start |-> p,
         next |-> IF k < Cardinality(heads) THEN Nth(heads, k + 1)
                  ELSE Len(text) + 1]

NumTags(text) ==
    Cardinality({i \in DOMAIN text : "tags" \in KeywordsIn(text[i])})

NumSettings(text) ==
    Cardinality({p \in DOMAIN text : Header0(text, p, "terraform").open # 0})

NumLabelled(text, keyword) ==
    Cardinality({p \in DOMAIN text : Header1(text, p, keyword).open # 0})

NumProviders(text) ==
    Cardinality({p \in DOMAIN text :
        /\ Header1(text, p, "provider").open # 0
        /\ Header1(text, p, "provider").name = <<"aws">>})

\* the latest step, the text it was given and the text it produced
LastOp == IF tf_ops = <<>> THEN "none" ELSE tf_ops[Len(tf_ops)]
TextIn == tf_texts[Len(tf_ops)]
TextOut == tf_texts[Len(tf_ops) + 1]
TagSteps == {"tags", "process_tags"}

(***************************************************************************)
(* Properties of the Normalizer and the Tag Injector.                      *)
(***************************************************************************)
\* C1: process_terraform applied to its own output returns that output
\* unchanged.
ProcessIdempotent ==
    (/\ Len(tf_ops) >= 4
     /\ LastOp = "process_tags"
     /\ tf_ops[Len(tf_ops) - 2] = "process_tags")
    => TextOut = tf_texts[Len(tf_ops) - 1]

\* C3: running the Tag Injector twice gives exactly the text that running
\* it once gives; no block receives a second tags map in the second run.
TagsIdempotent ==
    (/\ Len(tf_ops) >= 2
     /\ LastOp \in TagSteps
     /\ tf_ops[Len(tf_ops) - 1] \in TagSteps)
    => TextOut = TextIn

\* C4: after the Tag Injector every aws_ resource block whose body had no
\* tags attribute carries the standard tag map of the family inside its own
\* body, between its opening brace and the matching closing brace; resource
\* blocks of other types are unchanged.
TagsInsideBody ==
    LastOp \in TagSteps =>
        /\ Cardinality(ResourceHeads(TextOut))
              = Cardinality(ResourceHeads(TextIn))
        /\ \A k \in 1..Cardinality(ResourceHeads(TextIn)) :
              LET b == ResourceBlock(TextIn, k)
                  c == ResourceBlock(TextOut, k)
              IN  b.close # 0 =>
                    IF StartsWithAws(b.type)
                    THEN ~In("tags", SubSeq(TextIn, b.open, b.close)) =>
                            /\ c.close # 0
                            /\ InSeq(default_tags(var_name(service_type)),
                                     SubSeq(TextOut, c.open + 1, c.close - 1))
                    ELSE SubSeq(TextOut, c.start, c.close)
                            = SubSeq(TextIn, b.start, b.close)

\* C5: the Tag Injector adds no tag map to a resource block whose own span
\* (header through matching closing brace) already contains a tags
\* attribute, and what it does to one block does not depend on the other
\* blocks of the document.
NoDoubleTag ==
    LastOp \in TagSteps =>
        \A k \in 1..Cardinality(ResourceHeads(TextIn)) :
            LET b == ResourceBlock(TextIn, k)
                c == ResourceBlock(TextOut, k)
                alone == SubSeq(TextIn, b.start, b.next - 1)
            IN  /\ (b.close # 0 /\ In("tags", SubSeq(TextIn, b.start, b.close)))
                   => NumTags(SubSeq(TextOut, c.start, c.next - 1))
                         = NumTags(alone)
                /\ SubSeq(TextOut, c.start, c.next - 1)
                      = add_tags_to_resources(alone, service_type)

\* C6: the output of process_terraform contains a terraform settings block,
\* a provider "aws" block, at least one variable declaration block and at
\* least one output declaration block.
SectionsGuaranteed ==
    LastOp = "process_tags" =>
        /\ NumSettings(TextOut) >= 1
        /\ NumProviders(TextOut) >= 1
        /\ NumLabelled(TextOut, "variable") >= 1
        /\ NumLabelled(TextOut, "output") >= 1

\* C7: section insertion only adds text: a default section is added only
\* when the input has no section of that kind, and the input is one
\* contiguous part of the result, the default settings block before it and
\* the other defaults after it.
SectionsOnlyAdded ==
    LastOp = "sections" =>
        /\ NumSettings(TextOut) > NumSettings(TextIn)
              => NumSettings(TextIn) = 0
        /\ NumProviders(TextOut) > NumProviders(TextIn)
              => NumProviders(TextIn) = 0
        /\ \A keyword \in {"variable", "output"} :
              NumLabelled(TextOut, keyword) > NumLabelled(TextIn, keyword)
                 => NumLabelled(TextIn, keyword) = 0
        /\ \E i \in 1..(Len(TextOut) + 1) :
              /\ OccursAt(TextIn, TextOut, i)
              /\ LET before == SubSeq(TextOut, 1, i - 1)
                     after == SubSeq(TextOut, i + Len(TextIn), Len(TextOut))
                 IN  /\ before \in {<<>>, terraform_block \o <<"\n">>}
                     /\ NumSettings(after) = 0

(***************************************************************************)
(* Properties of the remediation engine.                                   *)
(***************************************************************************)
\* C2: auto_remediate is idempotent: a second run with the same finding
\* list returns the text of the first run.
RemediateIdempotent ==
    Len(rem_texts) >= 3 => rem_texts[3] = rem_texts[2]

(***************************************************************************)
(* Properties of block extraction.                                         *)
(***************************************************************************)
\* the number of braces open after the first i tokens of text
Depth(text, i) ==
    Cardinality({k \in 1..i : text[k] = "{"})
        - Cardinality({k \in 1..i : text[k] = "}"})

\* the braces of text are properly nested
Balanced(text) ==
    /\ \A i \in DOMAIN text : Depth(text, i) >= 0
    /\ Depth(text, Len(text)) = 0

\* every block text the extraction returned
AllBlocks(blocks) ==
    ({blocks.terraform, blocks.provider} \ {<<>>})
    \cup {blocks.variable[i] : i \in DOMAIN blocks.variable}
    \cup {blocks.resource[i] : i \in DOMAIN blocks.resource}
    \cup {blocks.output[i] : i \in DOMAIN blocks.output}

\* C11: for a document with properly nested braces, every extracted block
\* runs from its header through its matching closing brace, so its braces
\* are balanced; a nested sub-block never ends it.
ExtractsWholeBlocks ==
    (fmt_exit = "returned" /\ Balanced(terraform_code))
    => \A b \in AllBlocks(extracted) : Balanced(b)

\* C12: for a document with unbalanced braces, block extraction ends in a
\* fatal MalformedDocument error; it never returns normally.
MalformedIsFatal ==
    (fmt_exit # "none" /\ ~Balanced(terraform_code))
    => fmt_exit = "MalformedDocument"


(***************************************************************************)
(* Properties of the fallback formatter.                                   *)
(***************************************************************************)
\* format_terraform was called and its formatter could not be started
FormatterNotRun ==
    /\ last_call.op = "format_terraform"
    /\ last_call.env.write = "ok"
    /\ last_call.env.tool.kind \in {"FileNotFoundError", "PermissionError"}

\* the indices where the lines of text start
LineStarts(text) ==
    {i \in DOMAIN text : i = 1 \/ text[i - 1] = "\n"}

\* the line starting at s is inside a block, at nesting depth d >= 1 (a
\* line that starts with a closing brace has the depth of the line that
\* opened the brace), and starts with exactly 2 * d spaces
IndentedLine(text, s, q) ==
    LET d == Depth(text, q - 1) - (IF text[q] = "}" THEN 1 ELSE 0)
    IN  d >= 1 => q - s = 2 * d

\* every line of text that is not empty is indented by its depth
IndentedByDepth(text) ==
    \A s \in LineStarts(text) :
        LET q == FirstNot(text, s, {" "})
        IN  (q <= Len(text) /\ text[q] # "\n") => IndentedLine(text, s, q)

\* C25: when the external formatter cannot be run, format_terraform
\* returns the result of the indentation pass, in which every line inside
\* a block starts with exactly two spaces per brace-nesting level.
FallbackIndents ==
    FormatterNotRun
    => /\ tf_texts[2] = custom_format(tf_texts[1])
       /\ IndentedByDepth(tf_texts[2])

\* the tokens of text that are not white space, in their order
NonSpace(text) == SelectSeq(text, LAMBDA t : t \notin Spaces)

\* C29: the fallback formatter changes white space only: the text it
\* returns has the same sequence of non-white-space tokens as the text it
\* was given.
WhitespaceOnly ==
    (last_call.op = "format_terraform"
        /\ last_call.value = "custom_format")
    => NonSpace(tf_texts[2]) = NonSpace(tf_texts[1])
(***************************************************************************)
(* Properties of the calls that run an external tool.                      *)
(***************************************************************************)
\* the last call was one that creates a temporary file
WithTempFile == last_call.op \in {"scan_terraform", "format_terraform"}

\* C13: whenever scan_terraform or format_terraform returns or raises, the
\* temporary file the call created no longer exists, on every exit path,
\* a failed write of the document into the file included.
TempFileRemoved == WithTempFile => last_call.file \notin tmp_dir

\* the tool of the last call was unavailable: not installed, not startable,
\* crashed, or exited non-zero without output
ToolUnavailable ==
    \/ /\ last_call.op = "ScannerService"
       /\ last_call.env.version # "ok"
    \/ /\ last_call.op = "scan_terraform"
       /\ last_call.env.write = "ok"
       /\ \/ last_call.env.tool.kind # "exited"
          \/ /\ last_call.env.tool.returncode # 0
             /\ last_call.env.tool.stdout.text = "empty"

\* C14: when the static-analysis tool is unavailable, creating the
\* ScannerService and scan_terraform both complete without raising,
\* scan_terraform returns no findings and runs the tool at most once.
UnavailableToolTolerated ==
    ToolUnavailable
    => /\ last_call.exit = "returned"
       /\ last_call.op = "scan_terraform"
          => last_call.value = <<>> /\ last_call.runs <= 1

\* the tool's output is a JSON object whose results value is an object
\* that holds a failed_checks list of objects
ExpectedShape(stdout) ==
    /\ stdout.text = "json"
    /\ stdout.value.t = "object"
    /\ "results" \in DOMAIN stdout.value.m
    /\ stdout.value.m["results"].t = "object"
    /\ "failed_checks" \in DOMAIN stdout.value.m["results"].m
    /\ stdout.value.m["results"].m["failed_checks"].t = "array"
    /\ \A i \in DOMAIN stdout.value.m["results"].m["failed_checks"].a :
          stdout.value.m["results"].m["failed_checks"].a[i].t = "object"

\* the last call was a scan whose tool ran and exited
ScanWithOutput ==
    /\ last_call.op = "scan_terraform"
    /\ last_call.env.write = "ok"
    /\ last_call.env.tool.kind = "exited"

\* C15: for every tool output that is not in the expected shape,
\* scan_terraform returns no findings and does not raise; a well-formed
\* output gives one finding per failed check whatever the exit code is.
MalformedOutputTolerated ==
    ScanWithOutput
    => IF ExpectedShape(last_call.env.tool.stdout)
       THEN /\ last_call.exit = "returned"
            /\ Len(last_call.value)
                 = Len(last_call.env.tool.stdout.value.m["results"]
                          .m["failed_checks"].a)
       ELSE last_call.exit = "returned" /\ last_call.value = <<>>

\* the places of text where the header of a resource block of the given
\* type stands
BlocksOfType(text, type) ==
    {p \in DOMAIN text :
        /\ ResourceHeader(text, p).open # 0
        /\ ResourceHeader(text, p).type = <<type>>}

EncryptionType == "aws_s3_bucket_server_side_encryption_configuration"

EncryptionFinding == Issue(<<"aws_s3_bucket", ".", "main">>, EncryptionIssue)

\* C16: for a document without an encryption configuration block and a
\* finding list that holds an encryption finding on aws_s3_bucket.main,
\* every run of auto_remediate returns a document with exactly one
\* encryption configuration block, the one of the template for main, also
\* when the finding is listed twice and when auto_remediate runs again.
EncryptedOnce ==
    (/\ Len(rem_texts) >= 2
     /\ BlocksOfType(rem_texts[1], EncryptionType) = {}
     /\ \E i \in DOMAIN issues : issues[i] = EncryptionFinding)
    => \A k \in 2..Len(rem_texts) :
          \E p \in DOMAIN rem_texts[k] :
             /\ BlocksOfType(rem_texts[k], EncryptionType) = {p}
             /\ OccursAt(Tail(encryption_block("main")), rem_texts[k], p)

\* the list in the opposite order
Reverse(list) == [i \in DOMAIN list |-> list[Len(list) + 1 - i]]

\* C17: auto_remediate gives the same text for a finding list and for a
\* permutation of it: the text it returned for the given list is the text
\* it returns for the list in the opposite order.
OrderIndependent ==
    Len(rem_texts) >= 2
    => rem_texts[2] = auto_remediate(rem_texts[1], Reverse(issues))

\* text starts with prefix
StartsWith(text, prefix) ==
    Len(prefix) <= Len(text) /\ SubSeq(text, 1, Len(prefix)) = prefix

\* the match of the block a finding on an aws_instance or aws_vpc names
NamedBlock(text, issue) ==
    BlockSearch(text, issue.resource[1], issue.resource[3])

\* the named block of the finding is in the text: for an aws_s3_bucket
\* a resource header of that type and name, else the match of the
\* remediation pattern
HasNamedBlock(text, issue) ==
    IF issue.resource[1] = "aws_s3_bucket"
    THEN \E p \in BlocksOfType(text, "aws_s3_bucket") :
            ResourceHeader(text, p).name = <<issue.resource[3]>>
    ELSE NamedBlock(text, issue).start # 0

\* out keeps, in order, what stands before and after the block m of text
KeepsOutside(text, out, m) ==
    LET before == SubSeq(text, 1, m.start - 1)
        after == SubSeq(text, m.end + 1, Len(text))
    IN  /\ StartsWith(out, before)
        /\ \E i \in (m.start)..(Len(out) + 1) :
              OccursAt(after, out, i) \/ after = <<>>

\* C18: auto_remediate with one finding changes nothing outside the block
\* the finding names: a finding on another resource type or on a resource
\* whose block is not in the document leaves the document unchanged, a
\* finding on an aws_s3_bucket only appends, and a finding on an
\* aws_instance or aws_vpc keeps what stands before and after the block.
OutsideUntouched ==
    (Len(rem_texts) >= 2 /\ Len(issues) = 1)
    => LET text == rem_texts[1]
           out == rem_texts[2]
           issue == issues[1]
       IN  IF \/ issue.resource[1]
                    \notin {"aws_s3_bucket", "aws_instance", "aws_vpc"}
              \/ ~HasNamedBlock(text, issue)
           THEN out = text
           ELSE IF issue.resource[1] = "aws_s3_bucket"
           THEN StartsWith(out, text)
           ELSE KeepsOutside(text, out, NamedBlock(text, issue))

(***************************************************************************)
(* The rules that patch inside an existing block.                          *)
(***************************************************************************)
\* the headers of the resource blocks of the type and name a finding names
OwnBlocks(text, issue) ==
    {p \in BlocksOfType(text, issue.resource[1]) :
        ResourceHeader(text, p).name = <<issue.resource[3]>>}

\* the findings that fire one in-place rule, and nothing else
InPlaceIssues ==
    {Issue(<<"aws_instance", ".", "web">>, MetadataIssue),
     Issue(<<"aws_instance", ".", "web">>, EbsIssue),
     Issue(<<"aws_instance", ".", "web">>, MonitoringIssue),
     Issue(<<"aws_vpc", ".", "main">>, DnsIssue)}

\* the attribute whose absence lets the rule of the finding fire
PatchedAttribute(issue) ==
    CASE issue.description = MetadataIssue -> "metadata_options"
      [] issue.description = EbsIssue -> "root_block_device"
      [] issue.description = MonitoringIssue -> "monitoring"
      [] OTHER -> "enable_dns_support"

\* the text the rule of the finding puts in front of a closing brace
PatchText(issue) ==
    CASE issue.description = MetadataIssue -> metadata_options
      [] issue.description = EbsIssue -> root_block_device
      [] issue.description = MonitoringIssue ->
            SubSeq(monitoring_patch, 1, Len(monitoring_patch) - 1)
      [] OTHER -> SubSeq(dns_patch, 1, Len(dns_patch) - 1)

\* text with patch put immediately before index close
InsertBefore(text, close, patch) ==
    SubSeq(text, 1, close - 1) \o patch \o SubSeq(text, close, Len(text))

\* the block at header p lacks the attribute of the finding and is closed
LacksAttribute(text, p, issue) ==
    LET open == ResourceHeader(text, p).open
        close == MatchingClose(text, open)
    IN  /\ close # 0
        /\ ~In(PatchedAttribute(issue), SubSeq(text, open + 1, close - 1))

\* text with the patch of the finding as the last child of the block at p
PatchedBlock(text, p, issue) ==
    InsertBefore(text, MatchingClose(text, ResourceHeader(text, p).open),
                 PatchText(issue))

\* C23: when an in-place rule fires on the one resource block of its name
\* and the block lacks the attribute, the patch is inserted exactly once,
\* immediately before the block's own matching closing brace, also when
\* the block has nested sub-blocks or ends in consecutive closing braces.
PatchedOnceInBody ==
    (/\ Len(rem_texts) >= 2
     /\ Len(issues) = 1
     /\ issues[1] \in InPlaceIssues)
    => \A p \in OwnBlocks(rem_texts[1], issues[1]) :
          (/\ OwnBlocks(rem_texts[1], issues[1]) = {p}
           /\ LacksAttribute(rem_texts[1], p, issues[1]))
          => rem_texts[2] = PatchedBlock(rem_texts[1], p, issues[1])

(***************************************************************************)
(* Findings that do not name a resource.                                   *)
(***************************************************************************)
\* the resource of the finding is <type>.<name>, both of letters, digits
\* and underscores only, and the finding has a description
NamesResource(issue) ==
    /\ Len(Get(issue, "resource")) = 3
    /\ Get(issue, "resource")[1] \in IdentWords
    /\ Get(issue, "resource")[2] = "."
    /\ Get(issue, "resource")[3] \in IdentWords
    /\ Get(issue, "description") # <<>>

\* the findings of the list that name a resource, in their order
RECURSIVE Naming(_)
Naming(results) ==
    IF results = <<>> THEN <<>>
    ELSE (IF NamesResource(Head(results)) THEN <<Head(results)>> ELSE <<>>)
         \o Naming(Tail(results))

\* C24: a finding whose resource is not of the form <type>.<name>, or
\* whose resource or description is empty, is skipped: auto_remediate
\* returns what it returns for the list without these findings.
UnparsedSkipped ==
    Len(rem_texts) >= 2
    => rem_texts[2] = auto_remediate(rem_texts[1], Naming(issues))

(***************************************************************************)
(* The encryption of an existing root_block_device.                        *)
(***************************************************************************)
\* where the root_block_device sub-block of the block at header p opens:
\* the index of its brace, 0 when the block has none
RootDeviceOpen(text, p) ==
    LET open == ResourceHeader(text, p).open
        close == MatchingClose(text, open)
        root == First(text, open, {"root_block_device"})
    IN  IF /\ close # 0
           /\ root + 2 < close
           /\ text[root + 1] = " "
           /\ text[root + 2] = "{"
           /\ MatchingClose(text, root + 2) # 0
        THEN root + 2
        ELSE 0

\* what stands between the braces of that sub-block
RootDeviceBody(text, p) ==
    SubSeq(text, RootDeviceOpen(text, p) + 1,
           MatchingClose(text, RootDeviceOpen(text, p)) - 1)

\* the block at p has a root_block_device sub-block and no encrypted
\* attribute
UnencryptedRootDevice(text, p) ==
    /\ RootDeviceOpen(text, p) # 0
    /\ ~In("encrypted",
           SubSeq(text, ResourceHeader(text, p).open + 1,
                  MatchingClose(text, ResourceHeader(text, p).open) - 1))

\* C27: when an EBS-encryption finding names an aws_instance whose block
\* has a root_block_device sub-block without an encrypted attribute, the
\* remediated document has encrypted = true inside that sub-block.
RootDeviceEncrypted ==
    (/\ Len(rem_texts) >= 2
     /\ issues = <<Issue(<<"aws_instance", ".", "web">>, EbsIssue)>>)
    => \A p \in OwnBlocks(rem_texts[1], issues[1]) :
          UnencryptedRootDevice(rem_texts[1], p)
          => /\ RootDeviceOpen(rem_texts[2], p) # 0
             /\ InSeq(<<"encrypted", " ", "=", " ", "true">>,
                      RootDeviceBody(rem_texts[2], p))

(***************************************************************************)
(* The resources the appended blocks refer to.                             *)
(***************************************************************************)
\* text declares a resource of the type
DeclaresType(text, type) ==
    InSeq(<<"resource", " ", Quote, type, Quote>>, text)

\* text declares the resource of the type and name
Declares(text, type, name) ==
    InSeq(<<"resource", " ", Quote, type, Quote, " ", Quote, name, Quote>>,
          text)

\* the k-th run of auto_remediate appended a block of the type
Appended(k, type) ==
    /\ DeclaresType(rem_texts[k + 1], type)
    /\ ~DeclaresType(rem_texts[k], type)

\* C28: every resource a block appended by auto_remediate refers to is
\* declared in the returned document: aws_s3_bucket.logging with an
\* appended aws_s3_bucket_logging block, aws_iam_role.flow_log_role and
\* aws_cloudwatch_log_group.flow_log with an appended aws_flow_log block.
ReferencesDeclared ==
    \A k \in 1..(Len(rem_texts) - 1) :
        /\ Appended(k, "aws_s3_bucket_logging")
           => Declares(rem_texts[k + 1], "aws_s3_bucket", "logging")
        /\ Appended(k, "aws_flow_log")
           => /\ Declares(rem_texts[k + 1], "aws_iam_role", "flow_log_role")
              /\ Declares(rem_texts[k + 1], "aws_cloudwatch_log_group",
                          "flow_log")
(***************************************************************************)
(* Properties of the documentation step.                                   *)
(***************************************************************************)
S3Docs == documentation_templates.aws_s3_bucket
Ec2Docs == documentation_templates.aws_ec2_instance
VpcDocs == documentation_templates.aws_vpc

\* the documented resource types of each family and their comments
DocEntries(svc) ==
    CASE svc = "s3" ->
           {<<"aws_s3_bucket", S3Docs.standard>>,
            <<"aws_s3_bucket_server_side_encryption_configuration",
              S3Docs.encryption>>,
            <<"aws_s3_bucket_versioning", S3Docs.versioning>>,
            <<"aws_s3_bucket_logging", S3Docs.logging>>,
            <<"aws_s3_bucket_lifecycle_configuration", S3Docs.lifecycle>>,
            <<"aws_s3_bucket_cors_configuration", S3Docs.cors>>,
            <<"aws_s3_bucket_public_access_block",
              S3Docs.public_access_block>>}
      [] svc = "ec2" ->
           {<<"aws_instance", Ec2Docs.standard>>,
            <<"aws_security_group", Ec2Docs.security_groups>>,
            <<"aws_autoscaling_group", Ec2Docs.auto_scaling>>}
      [] svc = "vpc" ->
           {<<"aws_vpc", VpcDocs.standard>>,
            <<"aws_subnet", VpcDocs.subnet_config>>,
            <<"aws_nat_gateway", VpcDocs.nat_gateway>>,
            <<"aws_flow_log", VpcDocs.flow_logs>>,
            <<"aws_network_acl", VpcDocs.network_acl>>}

\* the comment stands on the lines right before index p of text, with at
\* most the monitoring comment of the same block between them
CommentAbove(text, p, doc) ==
    \/ /\ p > Len(doc) + 1
       /\ OccursAt(doc \o <<"\n">>, text, p - Len(doc) - 1)
    \/ /\ doc # Ec2Docs.monitoring
       /\ p > Len(doc) + Len(Ec2Docs.monitoring) + 2
       /\ OccursAt(doc \o <<"\n">> \o Ec2Docs.monitoring \o <<"\n">>, text,
                   p - Len(doc) - Len(Ec2Docs.monitoring) - 2)

\* how often the comment stands in text
NumComments(text, doc) ==
    Cardinality({q \in DOMAIN text : OccursAt(doc, text, q)})

\* the aws_instance blocks of text that set monitoring = true, by the
\* index of their header
MonitoredInstances(text) ==
    {p \in BlocksOfType(text, "aws_instance") :
        \E m \in (ResourceHeader(text, p).open + 1)
                   ..(MatchingClose(text, ResourceHeader(text, p).open) - 1) :
           MonitoringTrue(text, m)}

\* C19: after add_documentation every resource block whose type has an
\* entry for the family has the entry's comment on the lines right before
\* its header, once per block, and so has each aws_instance that sets
\* monitoring = true the monitoring comment when the family is ec2.
BlocksDocumented ==
    LastOp = "add_documentation"
    => /\ \A e \in DocEntries(service_type) :
            /\ \A p \in BlocksOfType(TextOut, e[1]) :
                  CommentAbove(TextOut, p, e[2])
            /\ NumComments(TextOut, e[2])
                 = Cardinality(BlocksOfType(TextOut, e[1]))
       /\ service_type = "ec2"
          => /\ \A p \in MonitoredInstances(TextOut) :
                   CommentAbove(TextOut, p, Ec2Docs.monitoring)
             /\ NumComments(TextOut, Ec2Docs.monitoring)
                  = Cardinality(MonitoredInstances(TextOut))

(***************************************************************************)
(* Properties of concurrent requests.                                      *)
(***************************************************************************)
\* request r has its temporary file on disk
Scanning(r) == pipeline[r].pc \in {"created", "written", "ran"}

\* C20: in every interleaving of two requests each request gets the
\* response it gets when served alone, no request fails, every request's
\* temporary file is its own, and from the write to the removal the file
\* exists and holds the request's own processed text.
RequestsIsolated ==
    \A r \in DOMAIN pipeline :
        /\ pipeline[r].pc # "failed"
        /\ pipeline[r].pc = "done"
           => pipeline[r].response
                = generate_template(pipeline[r].service_type,
                                    pipeline[r].terraform_code)
        /\ pipeline[r].pc \in {"written", "ran"}
           => /\ pipeline[r].tf_file_path \in tmp_dir
              /\ tmp_content[pipeline[r].tf_file_path]
                   = pipeline[r].processed_code
        /\ \A q \in DOMAIN pipeline :
              (q # r /\ Scanning(q) /\ Scanning(r))
              => pipeline[q].tf_file_path # pipeline[r].tf_file_path

\* two requests for different families are both done and their temporary
\* files were on disk at the same time, under different names
ConcurrentRequestsDone ==
    /\ DOMAIN pipeline = Requests
    /\ \A r \in Requests : pipeline[r].pc = "done"
    /\ pipeline[1].service_type # pipeline[2].service_type
    /\ pipeline[1].tf_file_path # pipeline[2].tf_file_path
    /\ pipeline[1].scan_results # pipeline[2].scan_results


(***************************************************************************)
(* The order of the stages inside one request.                             *)
(***************************************************************************)
\* the positions of the handler from which a local variable is assigned
AfterProcess ==
    {"processed", "created", "written", "ran", "scanned", "scored",
     "documented", "done"}
AfterScan == {"ran", "scanned", "scored", "documented", "done"}
AfterScore == {"scored", "documented", "done"}
AfterDocument == {"documented", "done"}

\* the text the scanner is given by request r
ScannedText(r) == FileText(pipeline[r].tf_file_path)

\* normalize, tag and annotate applied to the AI answer of request r
AnnotatedText(r) ==
    add_documentation(process_terraform(pipeline[r].terraform_code,
                                        pipeline[r].service_type),
                      pipeline[r].service_type)

BalanceKept ==
    /\ \A k \in DOMAIN tf_ops :
          /\ (tf_ops[k] = "process_tags" /\ Balanced(tf_texts[k - 1]))
             => Balanced(tf_texts[k + 1])
          /\ (tf_ops[k] = "add_documentation" /\ Balanced(tf_texts[k]))
             => Balanced(tf_texts[k + 1])
    /\ \A k \in 1..(Len(rem_texts) - 1) :
          Balanced(rem_texts[k]) => Balanced(rem_texts[k + 1])

\* a nested, balanced input went through add_documentation and
\* process_terraform
NestedInputProcessed ==
    /\ tf_ops = <<"add_documentation", "sections", "process_tags">>
    /\ Balanced(tf_texts[1])
    /\ \E i \in DOMAIN tf_texts[1] : Depth(tf_texts[1], i) >= 2
    /\ tf_texts[2] # tf_texts[1]
    /\ tf_texts[4] # tf_texts[2]
    /\ Balanced(tf_texts[4])

(***************************************************************************)
(* Properties of the cleaning of the provider's response.                  *)
(***************************************************************************)
\* the response is a fenced code block: apart from white space around it,
\* it starts with a fence and ends with another
IsFenced(response) ==
    /\ Len(Strip(response)) >= 2
    /\ Strip(response)[1] = Fence
    /\ Strip(response)[Len(Strip(response))] = Fence

\* what stands between the opening fence line and the closing fence
FenceContent(response) ==
    SubSeq(Strip(response), First(Strip(response), 1, {"\n"}) + 1,
           Len(Strip(response)) - 1)

\* C26: for every response that is a fenced code block, also with white
\* space in front of the opening fence or after the closing fence, the
\* cleaned text is the content without the fence markers.
FencesRemoved ==
    (tf_ops = <<"generate_terraform">> /\ IsFenced(tf_texts[1]))
    => /\ tf_texts[2] = Strip(FenceContent(tf_texts[1]))
       /\ \A i \in DOMAIN tf_texts[2] : tf_texts[2][i] # Fence
=============================================================================
